---- MODULE Spec2Model ----
(***************************************************************************)
(* A model of the MELCloud client (src/index.js, class MELCloudAPI).       *)
(*                                                                         *)
(* The client is a set of async methods; every public method is            *)
(*     return this._retryRequest(async () => { body })                     *)
(* and the bodies await each other.  The model keeps the chain of          *)
(* suspended calls as a stack of frames; a frame is one invocation of a    *)
(* public method together with its _retryRequest wrapper (its retry count  *)
(* and the error its catch block holds).  One action is one step of the    *)
(* code between two awaits.  The remote service is the environment: a      *)
(* request is answered 200 or fails as the fault plan of the call says.    *)
(***************************************************************************)
EXTENDS Integers, Sequences, FiniteSets, TLC

VARIABLES
    contextKey,   \* this.contextKey
    stack,        \* the suspended async calls, outermost first
    call,         \* the public operation in progress and its arguments
    fault,        \* how the remote misbehaves during this call
    log,          \* what this call did so far: requests, backoff and settle delays
    result,       \* the promise the caller holds
    posted,       \* the payload of the last command the remote accepted in this call
    remote,       \* the account at the remote service: its buildings and their devices
    other,        \* a second public operation in progress on this client, suspended
    settings      \* this.email, this.password, this.maxRetries

vars == <<contextKey, stack, call, fault, log, result, posted, remote, other, settings>>

(***************************************************************************)
(* Bounds of the model.                                                    *)
(***************************************************************************)
\* A fault plan fails at most this many consecutive requests (or all of them).
MaxFaults == 3
\* A fault plan lets at most this many requests through before it starts.
MaxSkip == 1

(***************************************************************************)
(* JavaScript values.                                                      *)
(***************************************************************************)
\* this.contextKey = null
NoKey == "null"
\* response.data.LoginData.ContextKey of an accepted login
IssuedKey == "ContextKey"
\* buildingId = null; `!buildingId` also takes 0 and undefined for absent
NoBuilding == 0
\* a property that the object does not have
Undefined == -1
\* error.response is undefined: a network error, a timeout, or an Error thrown by the client
NoResponse == 0
\* the answer of a request that did not fail
OK == 200

Str(s) == [t |-> "string", v |-> s]
Num(n) == [t |-> "number", v |-> n]
Bool(b) == [t |-> "boolean", v |-> b]
Range(s) == {s[i] : i \in DOMAIN s}

RECURSIVE SumOver(_, _)
SumOver(S, f) ==
    IF S = {} THEN 0
    ELSE LET x == CHOOSE y \in S : TRUE IN f[x] + SumOver(S \ {x}, f)

(***************************************************************************)
(* Strings are sequences of one-character strings, so that toLowerCase,    *)
(* parseInt and the date pattern are computed character by character.      *)
(***************************************************************************)
Digits == <<"0", "1", "2", "3", "4", "5", "6", "7", "8", "9">>

IsDigit(c) == c \in Range(Digits)

DigitValue(c) == (CHOOSE i \in DOMAIN Digits : Digits[i] = c) - 1

Upper == <<"A", "C", "D", "E", "F", "G", "H", "I", "L", "N", "O", "R", "S", "T", "U", "W", "Y">>
Lower == <<"a", "c", "d", "e", "f", "g", "h", "i", "l", "n", "o", "r", "s", "t", "u", "w", "y">>

\* String.prototype.toLowerCase, on the letters the model's inputs use
LowerChar(c) ==
    IF c \in Range(Upper) THEN Lower[CHOOSE i \in DOMAIN Upper : Upper[i] = c] ELSE c

toLowerCase(s) == [i \in DOMAIN s |-> LowerChar(s[i])]

\* String(n) of a small non-negative integer: how a number is used as a property key
NumberToString(n) ==
    IF n < 10 THEN <<Digits[n + 1]>> ELSE <<Digits[(n \div 10) + 1], Digits[(n % 10) + 1]>>

\* the not-a-number result of parseInt / parseFloat, among plain integers
NotANumber == -999

RECURSIVE DigitsPrefixValue(_, _, _)
DigitsPrefixValue(s, i, acc) ==
    IF i > Len(s) \/ ~IsDigit(s[i]) THEN acc
    ELSE DigitsPrefixValue(s, i + 1, acc * 10 + DigitValue(s[i]))

\* parseInt(v, 10): a number is itself; a string is its leading decimal digits;
\* anything else, and a string that starts with no digit, is NaN
parseInt(v) ==
    CASE v.t = "number" -> v.v
      [] v.t = "string" ->
            IF Len(v.v) > 0 /\ IsDigit(v.v[1]) THEN DigitsPrefixValue(v.v, 1, 0)
            ELSE NotANumber
      [] OTHER -> NotANumber

\* parseFloat(v), on the integer-valued inputs of the model
parseFloat(v) == parseInt(v)

\* Boolean(v)
ToBoolean(v) ==
    CASE v.t = "boolean" -> v.v
      [] v.t = "number" -> v.v # 0 /\ v.v # NotANumber
      [] v.t = "string" -> Len(v.v) > 0
      [] OTHER -> FALSE

\* obj[key]: a number key is looked up as its decimal string
PropertyKey(v) ==
    CASE v.t = "string" -> v.v
      [] v.t = "number" -> IF v.v >= 0 /\ v.v < 100 THEN NumberToString(v.v) ELSE <<"?">>
      [] OTHER -> <<"?">>

\* o.k of an object that may lack the property
Get(o, k) == IF k \in DOMAIN o THEN o[k] ELSE Undefined

\* a || b on numbers: 0, NaN and undefined are falsy
OrElse(a, b) == IF a \in {0, NotANumber, Undefined} THEN b ELSE a

(***************************************************************************)
(* The remote account: buildings -> floors -> areas -> devices.            *)
(***************************************************************************)
AtaData(power, temp, fan, mode, vaneH, vaneV) ==
    [DeviceType |-> 0, Power |-> power, SetTemperature |-> temp, SetFanSpeed |-> fan,
     OperationMode |-> mode, VaneHorizontalDirection |-> vaneH,
     VaneVerticalDirection |-> vaneV]

AtwData(power, hasZone2) ==
    [DeviceType |-> 1, Power |-> power, HasZone2 |-> hasZone2,
     ForcedHotWaterMode |-> FALSE, OperationModeZone1 |-> 1, OperationModeZone2 |-> 0,
     SetTankWaterTemperature |-> 50, SetTemperatureZone1 |-> 21, SetTemperatureZone2 |-> 0,
     SetHeatFlowTemperatureZone1 |-> 40, SetHeatFlowTemperatureZone2 |-> 0,
     SetCoolFlowTemperatureZone1 |-> 0, SetCoolFlowTemperatureZone2 |-> 0]

RemoteBuildings ==
    << [ID |-> 10, Structure |-> [Floors |-> <<
          [Areas |-> << [Devices |-> <<
              [DeviceID |-> 1, DeviceName |-> "Living room",
               Device |-> AtaData(TRUE, 22, 3, 1, 12, 0)] >>] >>] >>]],
       [ID |-> 20, Structure |-> [Floors |-> <<
          [Areas |-> << [Devices |-> <<
              [DeviceID |-> 2, DeviceName |-> "Boiler",
               Device |-> AtwData(TRUE, FALSE)] >>] >>] >>]] >>

\* the sequences of ss one after the other (ss is taken through a one-element set so
\* that it is evaluated once)
RECURSIVE Concat(_)
Concat(ss) ==
    CHOOSE r \in {IF s = <<>> THEN <<>> ELSE Head(s) \o Concat(Tail(s)) : s \in {ss}} : TRUE

\* the devices of one building, in the order forEach visits them
BuildingDevices(building) ==
    Concat([f \in DOMAIN building.Structure.Floors |->
        Concat([a \in DOMAIN building.Structure.Floors[f].Areas |->
            building.Structure.Floors[f].Areas[a].Devices])])

AccountDevices ==
    Concat([b \in DOMAIN RemoteBuildings |-> BuildingDevices(RemoteBuildings[b])])

\* a device id that no building of the account holds
UnknownDevice ==
    CHOOSE n \in 1..(Len(AccountDevices) + 1) :
        \A i \in DOMAIN AccountDevices : AccountDevices[i].DeviceID # n

\* the devices the remote holds now
RemoteDevices == Concat([b \in DOMAIN remote |-> BuildingDevices(remote[b])])

\* what GET /Device/Get?id=..&buildingID=.. answers: the record of that device
RemoteDeviceData(deviceId) ==
    RemoteDevices[CHOOSE i \in DOMAIN RemoteDevices :
                     RemoteDevices[i].DeviceID = deviceId].Device

\* the fields of a /Device/SetAta command: <<payload field, field of the device record,
\* bit of EffectiveFlags>>
AtaCommandFields ==
    { <<"Power", "Power", 1>>, <<"OperationMode", "OperationMode", 2>>,
      <<"SetTemperature", "SetTemperature", 4>>, <<"SetFanSpeed", "SetFanSpeed", 8>>,
      <<"VaneVertical", "VaneVerticalDirection", 16>>,
      <<"VaneHorizontal", "VaneHorizontalDirection", 256>> }

HasBit(n, bit) == (n \div bit) % 2 = 1

\* the device record after the remote accepted a command: the fields whose bit is set
\* in EffectiveFlags take the values of the payload, the others stay
Commanded(data, payload) ==
    [k \in DOMAIN data |->
        IF \E c \in AtaCommandFields : c[2] = k /\ HasBit(payload.EffectiveFlags, c[3])
        THEN payload[(CHOOSE c \in AtaCommandFields : c[2] = k)[1]]
        ELSE data[k]]

\* the account with the record data(d) in the place of the record of every device d
\* for which changed(d) holds
RemoteWith(account, changed, data) ==
    LET dev(d) == IF changed[d] THEN [d EXCEPT !.Device = data[d]] ELSE d
        area(a) == [a EXCEPT !.Devices = [i \in DOMAIN a.Devices |-> dev(a.Devices[i])]]
        floor(f) == [f EXCEPT !.Areas = [i \in DOMAIN f.Areas |-> area(f.Areas[i])]]
        building(b) ==
            [b EXCEPT !.Structure =
                [Floors |-> [i \in DOMAIN b.Structure.Floors |-> floor(b.Structure.Floors[i])]]]
    IN  [b \in DOMAIN account |-> building(account[b])]

\* the devices of an account, as a set
DevicesOf(account) ==
    LET devs == Concat([b \in DOMAIN account |-> BuildingDevices(account[b])])
    IN  {devs[i] : i \in DOMAIN devs}

\* the account after the remote accepted a command for an air conditioner it holds
Accept(account, payload) ==
    RemoteWith(account,
        [d \in DevicesOf(account) |->
            /\ d.DeviceID = payload.DeviceID
            /\ d.Device.DeviceType = payload.DeviceType
            /\ payload.DeviceType = 0],
        [d \in DevicesOf(account) |-> Commanded(d.Device, payload)])

\* the account in which the device deviceId has the record data
WithDeviceData(account, deviceId, data) ==
    RemoteWith(account,
        [d \in DevicesOf(account) |-> d.DeviceID = deviceId],
        [d \in DevicesOf(account) |-> data])

(***************************************************************************)
(* The device codec.                                                       *)
(***************************************************************************)
operationModes == [k \in {1, 2, 3, 7, 8} |->
    CASE k = 1 -> "heat" [] k = 2 -> "dry" [] k = 3 -> "cold" [] k = 7 -> "fan" [] k = 8 -> "auto"]

fanSpeeds == [k \in 0..5 |->
    CASE k = 0 -> "auto" [] k = 1 -> "1" [] k = 2 -> "2" [] k = 3 -> "3" [] k = 4 -> "4"
      [] k = 5 -> "5"]

vanePositions == [k \in (0..5) \cup {7, 12} |->
    CASE k = 0 -> "auto" [] k = 1 -> "1" [] k = 2 -> "2" [] k = 3 -> "3" [] k = 4 -> "4"
      [] k = 5 -> "5" [] k = 7 -> "swing" [] k = 12 -> "swing"]

\* table[code] || 'unknown'
Label(table, code) == IF code \in DOMAIN table THEN table[code] ELSE "unknown"

\* { a, ...b }: the properties of b added to (and overriding) those of a
Spread(a, b) ==
    CHOOSE r \in {[k \in DOMAIN x \cup DOMAIN y |-> IF k \in DOMAIN y THEN y[k] ELSE x[k]] :
                    x \in {a}, y \in {b}} : TRUE

\* the properties _parseDeviceData copies as they are: <<property, remote field>>
CopiedFields ==
    { <<"power", "Power">>, <<"temperature", "SetTemperature">>,
      <<"modeRaw", "OperationMode">>,
      <<"vaneHorizontalRaw", "VaneHorizontalDirection">>,
      <<"vaneVerticalRaw", "VaneVerticalDirection">>,
      <<"hasZone2", "HasZone2">>,
      <<"setTankWaterTemperature", "SetTankWaterTemperature">>,
      <<"setTemperatureZone1", "SetTemperatureZone1">>,
      <<"setTemperatureZone2", "SetTemperatureZone2">>,
      <<"setHeatFlowTemperatureZone1", "SetHeatFlowTemperatureZone1">>,
      <<"setHeatFlowTemperatureZone2", "SetHeatFlowTemperatureZone2">>,
      <<"setCoolFlowTemperatureZone1", "SetCoolFlowTemperatureZone1">>,
      <<"setCoolFlowTemperatureZone2", "SetCoolFlowTemperatureZone2">>,
      <<"forcedHotWaterMode", "ForcedHotWaterMode">>,
      <<"operationModeZone1", "OperationModeZone1">>,
      <<"operationModeZone2", "OperationModeZone2">> }

\* _parseDeviceData(deviceData), on the fields the operations of the client read.
\* A property whose remote field is missing is undefined: the record lacks it.
\* (The record is taken through a one-element set so that it is evaluated once.)
_parseDeviceData(deviceData) ==
    LET parsed(d) ==
          LET present == {c \in CopiedFields : c[2] \in DOMAIN d}
              copied == [k \in {c[1] : c \in present} |->
                            d[(CHOOSE c \in present : c[1] = k)[2]]]
          IN  Spread(copied,
                [fanSpeed |->
                    IF Get(d, "SetFanSpeed") \in DOMAIN fanSpeeds
                    THEN fanSpeeds[Get(d, "SetFanSpeed")]
                    ELSE Label(fanSpeeds, Get(d, "FanSpeed")),
                 fanSpeedRaw |-> OrElse(Get(d, "SetFanSpeed"), Get(d, "FanSpeed")),
                 mode |-> Label(operationModes, Get(d, "OperationMode")),
                 vaneHorizontal |-> Label(vanePositions, Get(d, "VaneHorizontalDirection")),
                 vaneVertical |-> Label(vanePositions, Get(d, "VaneVerticalDirection"))])
    IN  CHOOSE r \in {parsed(d) : d \in {deviceData}} : TRUE

\* a bug: the index starts again at 0 in every building
RECURSIVE FlattenDevices_IndexPerBuilding(_, _, _)
FlattenDevices_IndexPerBuilding(data, b, index) ==
    IF b > Len(data) THEN <<>>
    ELSE LET devs == BuildingDevices(data[b])
         IN  [i \in DOMAIN devs |->
                Spread([id |-> devs[i].DeviceID, index |-> i - 1,
                        buildingId |-> data[b].ID, name |-> devs[i].DeviceName,
                        type |-> devs[i].Device.DeviceType],
                       _parseDeviceData(devs[i].Device))]
             \o FlattenDevices_IndexPerBuilding(data, b + 1, index)

\* the body of getDevices after the response: the flattened, indexed device list
RECURSIVE FlattenDevices(_, _, _)
FlattenDevices(data, b, index) ==
    IF b > Len(data) THEN <<>>
    ELSE LET devs == BuildingDevices(data[b])
         IN  [i \in DOMAIN devs |->
                Spread([id |-> devs[i].DeviceID, index |-> index + i - 1,
                        buildingId |-> data[b].ID, name |-> devs[i].DeviceName,
                        type |-> devs[i].Device.DeviceType],
                       _parseDeviceData(devs[i].Device))]
             \o FlattenDevices(data, b + 1, index + Len(devs))

\* the value getDevice resolves with
DeviceRecord(deviceId, buildingId, data) ==
    Spread([id |-> deviceId, buildingId |-> buildingId], _parseDeviceData(data))

\* a bug: the first device of the list is taken for the one looked for
FindDevice_First(devices, deviceId) ==
    IF \E i \in DOMAIN devices : devices[i].id = deviceId THEN 1 ELSE 0

\* devices.find(d => d.id === deviceId): the position of the first match, 0 for none
FindDevice(devices, deviceId) ==
    IF \E i \in DOMAIN devices : devices[i].id = deviceId
    THEN CHOOSE i \in DOMAIN devices :
            devices[i].id = deviceId /\ \A j \in 1..(i - 1) : devices[j].id # deviceId
    ELSE 0

(***************************************************************************)
(* setDevice: the payload of an air-conditioner command.                   *)
(***************************************************************************)
modeMappings ==
    << <<<<"h", "e", "a", "t">>, 1>>, <<<<"h", "o", "t">>, 1>>, <<<<"h">>, 1>>, <<<<"1">>, 1>>,
       <<<<"d", "r", "y">>, 2>>, <<<<"d">>, 2>>, <<<<"2">>, 2>>,
       <<<<"c", "o", "l", "d">>, 3>>, <<<<"c", "o", "o", "l">>, 3>>, <<<<"c">>, 3>>,
       <<<<"3">>, 3>>, <<<<"4">>, 4>>, <<<<"5">>, 5>>, <<<<"6">>, 6>>,
       <<<<"f", "a", "n">>, 7>>, <<<<"a", "i", "r">>, 7>>, <<<<"f">>, 7>>, <<<<"7">>, 7>>,
       <<<<"a", "u", "t", "o">>, 8>>, <<<<"a">>, 8>>, <<<<"8">>, 8>> >>

vaneHorizontalMappings == << <<<<"a", "u", "t", "o">>, 0>>, <<<<"s", "w", "i", "n", "g">>, 12>> >>

vaneVerticalMappings == << <<<<"a", "u", "t", "o">>, 0>>, <<<<"s", "w", "i", "n", "g">>, 7>> >>

\* mappings[key], Undefined when the object has no such property
Lookup(mappings, v) ==
    LET key == PropertyKey(v)
    IN  IF \E i \in DOMAIN mappings : mappings[i][1] = key
        THEN mappings[CHOOSE i \in DOMAIN mappings : mappings[i][1] = key][2]
        ELSE Undefined

\* a bug: the string is looked up as the caller wrote it
LowerIfString_AsGiven(v) == v

\* typeof x === 'string' ? x.toLowerCase() : x
LowerIfString(v) == IF v.t = "string" THEN Str(toLowerCase(v.v)) ELSE v

\* a bug: the horizontal vane given the bit of the vertical vane
flagMappings_VaneClash ==
    [power |-> 1, operationmode |-> 2, settemperature |-> 4, setfanspeed |-> 8,
     vanevertical |-> 16, vanehorizontal |-> 16]

flagMappings ==
    [power |-> 1, operationmode |-> 2, settemperature |-> 4, setfanspeed |-> 8,
     vanevertical |-> 16, vanehorizontal |-> 256]

\* params.fanSpeed === 'auto' ? 0 : parseInt(params.fanSpeed, 10)
EncodeFanSpeed(v) ==
    IF v.t = "string" /\ v.v = <<"a", "u", "t", "o">> THEN 0 ELSE parseInt(v)

\* modeMappings[mode] || parseInt(mode, 10)
EncodeMode(v) ==
    LET mode == LowerIfString(v) IN OrElse(Lookup(modeMappings, mode), parseInt(mode))

\* mappings[vane] !== undefined ? mappings[vane] : parseInt(vane, 10)
EncodeVane(mappings, v) ==
    LET vane == LowerIfString(v)
    IN  IF Lookup(mappings, vane) # Undefined THEN Lookup(mappings, vane) ELSE parseInt(vane)

\* a bug: the target temperature seeded with a default, not with the fetched one
AtaPayload_DefaultTemperature(deviceId, currentStatus, params) ==
    LET p == [DeviceID |-> deviceId, DeviceType |-> 0,
              Power |-> Get(currentStatus, "power"),
              SetTemperature |-> 20,
              SetFanSpeed |-> Get(currentStatus, "fanSpeedRaw"),
              OperationMode |-> Get(currentStatus, "modeRaw"),
              VaneHorizontal |-> Get(currentStatus, "vaneHorizontalRaw"),
              VaneVertical |-> Get(currentStatus, "vaneVerticalRaw"),
              EffectiveFlags |-> 0]
    IN  IF "power" \in DOMAIN params
        THEN [p EXCEPT !.Power = ToBoolean(params["power"]),
                       !.EffectiveFlags = 1]
        ELSE [p EXCEPT !.EffectiveFlags = 2]

\* the payload setDevice builds from the fetched state and the caller's params
AtaPayload(deviceId, currentStatus, params) ==
    LET supplied(k) == k \in DOMAIN params
        p0 == [DeviceID |-> deviceId, DeviceType |-> 0,
               Power |-> Get(currentStatus, "power"),
               SetTemperature |-> Get(currentStatus, "temperature"),
               SetFanSpeed |-> Get(currentStatus, "fanSpeedRaw"),
               OperationMode |-> Get(currentStatus, "modeRaw"),
               VaneHorizontal |-> Get(currentStatus, "vaneHorizontalRaw"),
               VaneVertical |-> Get(currentStatus, "vaneVerticalRaw"),
               EffectiveFlags |-> 0]
        p1 == IF supplied("power")
              THEN [p0 EXCEPT !.Power = ToBoolean(params["power"]),
                              !.EffectiveFlags = @ + flagMappings.power]
              ELSE p0
        p2 == IF supplied("temperature")
              THEN [p1 EXCEPT !.SetTemperature = parseFloat(params["temperature"]),
                              !.EffectiveFlags = @ + flagMappings.settemperature]
              ELSE p1
        p3 == IF supplied("fanSpeed")
              THEN [p2 EXCEPT !.SetFanSpeed = EncodeFanSpeed(params["fanSpeed"]),
                              !.EffectiveFlags = @ + flagMappings.setfanspeed]
              ELSE p2
        p4 == IF supplied("mode")
              THEN [p3 EXCEPT !.OperationMode = EncodeMode(params["mode"]),
                              !.EffectiveFlags = @ + flagMappings.operationmode]
              ELSE p3
        p5 == IF supplied("vaneHorizontal")
              THEN [p4 EXCEPT !.VaneHorizontal =
                                  EncodeVane(vaneHorizontalMappings, params["vaneHorizontal"]),
                              !.EffectiveFlags = @ + flagMappings.vanehorizontal]
              ELSE p4
        p6 == IF supplied("vaneVertical")
              THEN [p5 EXCEPT !.VaneVertical =
                                  EncodeVane(vaneVerticalMappings, params["vaneVertical"]),
                              !.EffectiveFlags = @ + flagMappings.vanevertical]
              ELSE p5
    IN  p6

(***************************************************************************)
(* setHeatPumpDevice: the payload of a heat-pump command.                  *)
(***************************************************************************)
atwFlagMappings ==
    [power |-> 1, forcedHotWaterMode |-> 2, operationModeZone1 |-> 4,
     operationModeZone2 |-> 8, setTankWaterTemperature |-> 16, setTemperatureZone1 |-> 32,
     setTemperatureZone2 |-> 64, setHeatFlowTemperatureZone1 |-> 128,
     setHeatFlowTemperatureZone2 |-> 256, setCoolFlowTemperatureZone1 |-> 512,
     setCoolFlowTemperatureZone2 |-> 1024]

\* the `if (params.x !== undefined)` blocks of setHeatPumpDevice, in source order:
\* the params property, the payload field, how the value is converted, and whether
\* the block first throws on a device without a second zone
AtwBlocks ==
    << [param |-> "power", field |-> "Power", conv |-> "Boolean", zone2 |-> FALSE],
       [param |-> "forcedHotWaterMode", field |-> "ForcedHotWaterMode", conv |-> "Boolean",
        zone2 |-> FALSE],
       [param |-> "operationModeZone1", field |-> "OperationModeZone1", conv |-> "parseInt",
        zone2 |-> FALSE],
       [param |-> "operationModeZone2", field |-> "OperationModeZone2", conv |-> "parseInt",
        zone2 |-> TRUE],
       [param |-> "setTankWaterTemperature", field |-> "SetTankWaterTemperature",
        conv |-> "parseFloat", zone2 |-> FALSE],
       [param |-> "setTemperatureZone1", field |-> "SetTemperatureZone1",
        conv |-> "parseFloat", zone2 |-> FALSE],
       [param |-> "setTemperatureZone2", field |-> "SetTemperatureZone2",
        conv |-> "parseFloat", zone2 |-> TRUE],
       [param |-> "setHeatFlowTemperatureZone1", field |-> "SetHeatFlowTemperatureZone1",
        conv |-> "parseFloat", zone2 |-> FALSE],
       [param |-> "setHeatFlowTemperatureZone2", field |-> "SetHeatFlowTemperatureZone2",
        conv |-> "parseFloat", zone2 |-> TRUE],
       [param |-> "setCoolFlowTemperatureZone1", field |-> "SetCoolFlowTemperatureZone1",
        conv |-> "parseFloat", zone2 |-> FALSE],
       [param |-> "setCoolFlowTemperatureZone2", field |-> "SetCoolFlowTemperatureZone2",
        conv |-> "parseFloat", zone2 |-> TRUE] >>

Convert(conv, v) ==
    CASE conv = "Boolean" -> ToBoolean(v)
      [] conv = "parseInt" -> parseInt(v)
      [] conv = "parseFloat" -> parseFloat(v)

\* o.k || false and !!o.k, for a boolean property the record may lack
Truthy(o, k) == k \in DOMAIN o /\ o[k] = TRUE

\* the payload seeded from the current status
AtwSeed(deviceId, currentStatus) ==
    [DeviceID |-> deviceId, DeviceType |-> 1,
     Power |-> Get(currentStatus, "power"),
     ForcedHotWaterMode |-> Truthy(currentStatus, "forcedHotWaterMode"),
     OperationModeZone1 |-> OrElse(Get(currentStatus, "operationModeZone1"), 0),
     OperationModeZone2 |-> OrElse(Get(currentStatus, "operationModeZone2"), 0),
     SetTankWaterTemperature |-> OrElse(Get(currentStatus, "setTankWaterTemperature"), 40),
     SetTemperatureZone1 |-> OrElse(Get(currentStatus, "setTemperatureZone1"), 20),
     SetTemperatureZone2 |-> OrElse(Get(currentStatus, "setTemperatureZone2"), 20),
     SetHeatFlowTemperatureZone1 |-> OrElse(Get(currentStatus, "setHeatFlowTemperatureZone1"), 35),
     SetHeatFlowTemperatureZone2 |-> OrElse(Get(currentStatus, "setHeatFlowTemperatureZone2"), 35),
     SetCoolFlowTemperatureZone1 |-> OrElse(Get(currentStatus, "setCoolFlowTemperatureZone1"), 18),
     SetCoolFlowTemperatureZone2 |-> OrElse(Get(currentStatus, "setCoolFlowTemperatureZone2"), 18),
     EffectiveFlags |-> 0]

\* a bug: the zone-2 blocks without `if (!currentStatus.hasZone2) throw ..`
RECURSIVE AtwApply_NoZone2Check(_, _, _, _)
AtwApply_NoZone2Check(payload, currentStatus, params, i) ==
    IF i > Len(AtwBlocks) THEN [thrown |-> "", payload |-> payload]
    ELSE LET blk == AtwBlocks[i]
         IN  IF blk.param \notin DOMAIN params
             THEN AtwApply_NoZone2Check(payload, currentStatus, params, i + 1)
             ELSE AtwApply_NoZone2Check(
                    [payload EXCEPT ![blk.field] = Convert(blk.conv, params[blk.param]),
                                    !.EffectiveFlags = @ + atwFlagMappings[blk.param]],
                    currentStatus, params, i + 1)

\* the update blocks from block i on: the payload, or the message of the Error thrown
RECURSIVE AtwApply(_, _, _, _)
AtwApply(payload, currentStatus, params, i) ==
    IF i > Len(AtwBlocks) THEN [thrown |-> "", payload |-> payload]
    ELSE LET blk == AtwBlocks[i]
         IN  IF blk.param \notin DOMAIN params
             THEN AtwApply(payload, currentStatus, params, i + 1)
             ELSE IF blk.zone2 /\ ~Truthy(currentStatus, "hasZone2")
             THEN [thrown |-> "Device does not have Zone 2", payload |-> payload]
             ELSE AtwApply(
                    [payload EXCEPT ![blk.field] = Convert(blk.conv, params[blk.param]),
                                    !.EffectiveFlags = @ + atwFlagMappings[blk.param]],
                    currentStatus, params, i + 1)

AtwPayload(deviceId, currentStatus, params) ==
    AtwApply(AtwSeed(deviceId, currentStatus), currentStatus, params, 1)

(***************************************************************************)
(* getEnergyReport: /^\d{4}-\d{2}-\d{2}$/.test(date)                       *)
(***************************************************************************)
dateRegexTest(date) ==
    /\ Len(date) = 10
    /\ \A i \in 1..10 : IF i \in {5, 8} THEN date[i] = "-" ELSE IsDigit(date[i])

(***************************************************************************)
(* The retry wrapper.                                                      *)
(***************************************************************************)
maxRetries == 2

\* an error: error.response.status (NoResponse when error.response is undefined),
\* error.message, and the length of the log when it arose (which tells the errors of
\* two attempts apart)
Error(response, message, at) == [response |-> response, message |-> message, at |-> at]

NoError == Error(NoResponse, "", 0)

\* a bug: every HTTP error status is retried
_shouldRetryError_AnyStatus(error) ==
    IF error.response = NoResponse THEN TRUE ELSE error.response >= 400

_shouldRetryError(error) ==
    IF error.response = NoResponse THEN TRUE
    ELSE LET status == error.response
         IN  status = 401 \/ status = 429 \/ (status >= 500 /\ status < 600)

\* a bug: a fixed delay instead of an exponential one
BackoffDelay_Fixed(retries) == 1000

\* Math.pow(2, retries) * 1000
BackoffDelay(retries) == (2 ^ retries) * 1000

\* the brief delay of setDevice / setHeatPumpDevice before the state is fetched again
SettleDelayMs == 1000

(***************************************************************************)
(* The environment: the remote service and its faults.                     *)
(***************************************************************************)
Endpoints == {"Login", "ListDevices", "DeviceGet", "SetAta", "SetAtw", "EnergyReport"}

\* HTTP statuses of failed requests
FailureStatuses == {400, 401, 404, 429, 499, 500, 599, 600}

\* count = Forever: the endpoint fails permanently
Forever == MaxFaults + 1

NoFault == [ep |-> "none", status |-> OK, skip |-> 0, count |-> 0]

\* A fault plan: after `skip` requests to endpoint `ep` were answered, the next `count`
\* requests to it (all further ones, for Forever) fail: with that HTTP status; with no
\* response at all (NoResponse); or, for a login, answered 200 with LoginData null (OK).
FaultPlans(eps) ==
    {NoFault} \cup
    [ep : eps, status : FailureStatuses \cup {NoResponse},
     skip : 0..MaxSkip, count : (1..MaxFaults) \cup {Forever}] \cup
    [ep : eps \cap {"Login"}, status : {OK},
     skip : 0..MaxSkip, count : (1..MaxFaults) \cup {Forever}]

\* the endpoints an operation can reach
EndpointsOf(op) ==
    CASE op = "login" -> {"Login"}
      [] op = "getDevices" -> {"Login", "ListDevices"}
      [] op = "getDevice" -> {"Login", "ListDevices", "DeviceGet"}
      [] op = "setDevice" -> {"Login", "ListDevices", "DeviceGet", "SetAta"}
      [] op = "setHeatPumpDevice" -> {"Login", "ListDevices", "DeviceGet", "SetAtw"}
      [] op = "getEnergyReport" -> {"Login", "ListDevices", "EnergyReport"}

LogEntry(ev, ep, status, ok, key, ms) ==
    [ev |-> ev, ep |-> ep, status |-> status, ok |-> ok, key |-> key, ms |-> ms]

Requests(l, ep) == {i \in DOMAIN l : l[i].ev = "request" /\ l[i].ep = ep}

\* whether the remote fails the next request to ep
Fails(ep) ==
    LET n == Cardinality(Requests(log, ep)) + 1
    IN  /\ fault.ep = ep
        /\ n > fault.skip
        /\ (fault.count = Forever \/ n <= fault.skip + fault.count)

\* the log after a request to ep that carried `key`
Sent(ep, key) ==
    Append(log, LogEntry("request", ep, IF Fails(ep) THEN fault.status ELSE OK,
                         ~Fails(ep), key, 0))

\* the error axios rejects with (or, for a login answered without LoginData, the
\* TypeError of reading LoginData.ContextKey)
RequestError(ep) ==
    IF fault.status = OK
    THEN Error(NoResponse, "TypeError: Cannot read properties of null", Len(log) + 1)
    ELSE Error(fault.status, "Request failed", Len(log) + 1)

(***************************************************************************)
(* Frames.                                                                 *)
(***************************************************************************)
NoParams == <<>>
NoDate == <<>>
NoStatus == <<>>
NoPayload == <<>>

Frame(fn, pc, deviceId, buildingId, params, fromDate, toDate) ==
    [fn |-> fn, pc |-> pc, retries |-> 0, error |-> NoError,
     deviceId |-> deviceId, buildingId |-> buildingId, params |-> params,
     fromDate |-> fromDate, toDate |-> toDate,
     currentStatus |-> NoStatus, payload |-> NoPayload]

\* where the body of a public method starts
StartPc(fn) == IF fn = "login" THEN "post" ELSE "auth"

\* where the body goes on after `await this._ensureAuthenticated()`
AfterAuth(fn) ==
    CASE fn = "getDevices" -> "get"
      [] fn \in {"getDevice", "getEnergyReport"} -> "building"
      [] fn \in {"setDevice", "setHeatPumpDevice"} -> "status"

NewFrame(fn, deviceId, buildingId, params, fromDate, toDate) ==
    Frame(fn, StartPc(fn), deviceId, buildingId, params, fromDate, toDate)

LoginFrame == NewFrame("login", 0, NoBuilding, NoParams, NoDate, NoDate)
GetDevicesFrame == NewFrame("getDevices", 0, NoBuilding, NoParams, NoDate, NoDate)
GetDeviceFrame(deviceId, buildingId) ==
    NewFrame("getDevice", deviceId, buildingId, NoParams, NoDate, NoDate)

\* the body throws: control is in the catch block of the frame's _retryRequest
Throw(f, error) == [f EXCEPT !.pc = "catch", !.error = error]

\* getDevice / getEnergyReport once buildingId is known
AfterBuilding(f, now) ==
    IF f.fn = "getDevice" THEN [f EXCEPT !.pc = "get"]
    ELSE IF ~dateRegexTest(f.fromDate) \/ ~dateRegexTest(f.toDate)
         THEN Throw(f, Error(NoResponse, "Date format must be YYYY-MM-DD", now))
         ELSE [f EXCEPT !.pc = "post"]

\* a bug: setHeatPumpDevice without `if (currentStatus.type !== 1) throw ..`
AfterStatus_NoTypeCheck(f0, currentStatus, now) ==
    LET f == [f0 EXCEPT !.currentStatus = currentStatus,
                        !.buildingId = currentStatus.buildingId]
    IN  IF f.fn = "setDevice"
        THEN LET payload == AtaPayload(f.deviceId, currentStatus, f.params)
             IN  IF payload.EffectiveFlags = 0
                 THEN Throw(f, Error(NoResponse, "No valid parameters provided to set", now))
                 ELSE [f EXCEPT !.payload = payload, !.pc = "post"]
        ELSE LET r == AtwPayload(f.deviceId, currentStatus, f.params)
             IN  IF r.thrown # ""
                 THEN Throw(f, Error(NoResponse, r.thrown, now))
                 ELSE IF r.payload.EffectiveFlags = 0
                 THEN Throw(f, Error(NoResponse,
                                     "No valid parameters provided to set", now))
                 ELSE [f EXCEPT !.payload = r.payload, !.pc = "post"]

\* setDevice / setHeatPumpDevice once getDevice has resolved with currentStatus
AfterStatus(f0, currentStatus, now) ==
    LET f == [f0 EXCEPT !.currentStatus = currentStatus,
                        !.buildingId = currentStatus.buildingId]
    IN  IF f.fn = "setDevice"
        THEN LET payload == AtaPayload(f.deviceId, currentStatus, f.params)
             IN  IF payload.EffectiveFlags = 0
                 THEN Throw(f, Error(NoResponse, "No valid parameters provided to set", now))
                 ELSE [f EXCEPT !.payload = payload, !.pc = "post"]
        ELSE IF Get(currentStatus, "type") # 1
             THEN Throw(f, Error(NoResponse, "Device is not a heat pump (ATW device)", now))
             ELSE LET r == AtwPayload(f.deviceId, currentStatus, f.params)
                  IN  IF r.thrown # ""
                      THEN Throw(f, Error(NoResponse, r.thrown, now))
                      ELSE IF r.payload.EffectiveFlags = 0
                      THEN Throw(f, Error(NoResponse,
                                          "No valid parameters provided to set", now))
                      ELSE [f EXCEPT !.payload = r.payload, !.pc = "post"]

\* the code of frame f after the await it is suspended at resolved with v
Resume(f, v, now) ==
    CASE f.pc = "awaitLogin" -> [f EXCEPT !.pc = AfterAuth(f.fn)]
      [] f.pc = "awaitDevices" ->
            LET i == FindDevice(v, f.deviceId)
            IN  IF i = 0
                THEN Throw(f, Error(NoResponse, "Device not found", now))
                ELSE AfterBuilding([f EXCEPT !.buildingId = v[i].buildingId], now)
      [] f.pc = "awaitStatus" -> AfterStatus(f, v, now)

Front(stk) == SubSeq(stk, 1, Len(stk) - 1)
Top(stk) == stk[Len(stk)]
SetTop(stk, f) == [stk EXCEPT ![Len(stk)] = f]

\* the properties getDeviceStatus copies from the record of getDevice:
\* <<property of the summary, property of the record>>
SummaryFields ==
    { <<"id", "id">>, <<"name", "name">>, <<"power", "power">>,
      <<"targetTemperature", "temperature">>, <<"hasZone2", "hasZone2">> }

\* getDeviceStatus: the summary of device, the record getDevice resolved with.  A
\* property the record lacks is undefined in the summary: the summary lacks it.
StatusSummary(device) ==
    LET present == {c \in SummaryFields : c[2] \in DOMAIN device}
        copied == [k \in {c[1] : c \in present} |->
                      device[(CHOOSE c \in present : c[1] = k)[2]]]
    IN  Spread(copied,
          [type |-> IF Get(device, "type") = 0 THEN "Air Conditioner"
                    ELSE IF Get(device, "type") = 1 THEN "Heat Pump"
                    ELSE "Unknown",
           online |-> ~Truthy(device, "offline")])

Pending == [state |-> "pending", value |-> <<>>]

\* a bug: setDevice resolves with the state it fetched before the command
RECURSIVE Complete_ReturnsFirstFetch(_, _, _, _)
Complete_ReturnsFirstFetch(stk, ok, v, now) ==
    IF stk = <<>>
    THEN [stack |-> <<>>,
          result |-> [state |-> IF ok THEN "resolved" ELSE "rejected", value |-> v]]
    ELSE IF Top(stk).fn = "getDeviceStatus"
    THEN Complete_ReturnsFirstFetch(Front(stk), ok, IF ok THEN StatusSummary(v) ELSE v, now)
    ELSE IF ~ok THEN [stack |-> SetTop(stk, Throw(Top(stk), v)), result |-> Pending]
    ELSE IF Top(stk).pc = "awaitRefetch"
    THEN Complete_ReturnsFirstFetch(Front(stk), TRUE, Top(stk).currentStatus, now)
    ELSE [stack |-> SetTop(stk, Resume(Top(stk), v, now)), result |-> Pending]

\* A call has settled (resolved with v, or rejected with error v) and stk are its
\* callers: the caller resumes or catches the error; the outermost promise settles;
\* a caller that returned the call's promise (`return this.getDevice(..)`) resolves
\* with it; getDeviceStatus, which has no _retryRequest and no try, resolves with
\* the summary of v or rejects with the error.
RECURSIVE Complete(_, _, _, _)
Complete(stk, ok, v, now) ==
    IF stk = <<>>
    THEN [stack |-> <<>>,
          result |-> [state |-> IF ok THEN "resolved" ELSE "rejected", value |-> v]]
    ELSE IF Top(stk).fn = "getDeviceStatus"
    THEN Complete(Front(stk), ok, IF ok THEN StatusSummary(v) ELSE v, now)
    ELSE IF ~ok THEN [stack |-> SetTop(stk, Throw(Top(stk), v)), result |-> Pending]
    ELSE IF Top(stk).pc = "awaitRefetch" THEN Complete(Front(stk), TRUE, v, now)
    ELSE [stack |-> SetTop(stk, Resume(Top(stk), v, now)), result |-> Pending]

(***************************************************************************)
(* What a caller may ask for.                                              *)
(***************************************************************************)
Chars_auto == <<"a", "u", "t", "o">>
Chars_swing == <<"s", "w", "i", "n", "g">>
Chars_Cool == <<"C", "o", "o", "l">>

AtaFields == {"power", "temperature", "fanSpeed", "mode", "vaneHorizontal", "vaneVertical"}

AtaSample ==
    [power |-> Bool(FALSE), temperature |-> Num(24), fanSpeed |-> Str(Chars_auto),
     mode |-> Str(Chars_Cool), vaneHorizontal |-> Str(Chars_swing), vaneVertical |-> Num(3)]

AtaSampleB ==
    [power |-> Num(1), temperature |-> Str(<<"2", "1">>), fanSpeed |-> Num(2),
     mode |-> Num(8), vaneHorizontal |-> Num(0), vaneVertical |-> Str(Chars_swing)]

AtwSample ==
    [power |-> Bool(TRUE), forcedHotWaterMode |-> Bool(TRUE),
     operationModeZone1 |-> Num(1), operationModeZone2 |-> Num(2),
     setTankWaterTemperature |-> Num(48), setTemperatureZone1 |-> Num(21),
     setTemperatureZone2 |-> Num(19), setHeatFlowTemperatureZone1 |-> Num(38),
     setHeatFlowTemperatureZone2 |-> Num(36), setCoolFlowTemperatureZone1 |-> Num(17),
     setCoolFlowTemperatureZone2 |-> Num(16)]

ParamsOver(S, sample) == [k \in S |-> sample[k]]

\* the spellings of a name a caller may use: as documented, in capitals, capitalised
UpperChar(c) ==
    IF c \in Range(Lower) THEN Upper[CHOOSE i \in DOMAIN Lower : Lower[i] = c] ELSE c

toUpperCase(s) == [i \in DOMAIN s |-> UpperChar(s[i])]

Capitalised(s) == [i \in DOMAIN s |-> IF i = 1 THEN UpperChar(s[i]) ELSE s[i]]

Spellings(s) == {Str(s), Str(toUpperCase(s)), Str(Capitalised(s))}

\* the documented names of the operation modes
ModeNames ==
    { <<"h", "e", "a", "t">>, <<"h", "o", "t">>, <<"h">>, <<"d", "r", "y">>, <<"d">>,
      <<"c", "o", "l", "d">>, <<"c", "o", "o", "l">>, <<"c">>, <<"f", "a", "n">>,
      <<"a", "i", "r">>, <<"f">>, <<"a", "u", "t", "o">>, <<"a">> }

\* values that are neither a name nor a number
Unresolvable == {Str(<<"w", "a", "r", "m">>), Str(<<>>), Bool(TRUE)}

ModeInputs ==
    UNION {Spellings(s) : s \in ModeNames} \cup {Num(n) : n \in 0..9} \cup
    {Str(NumberToString(n)) : n \in (0..8) \cup {10}} \cup Unresolvable

FanSpeedInputs ==
    Spellings(Chars_auto) \cup {Num(n) : n \in 0..5} \cup
    {Str(NumberToString(n)) : n \in 0..5} \cup Unresolvable

VaneInputs ==
    Spellings(Chars_auto) \cup Spellings(Chars_swing) \cup
    {Num(n) : n \in (0..5) \cup {7, 12}} \cup
    {Str(NumberToString(n)) : n \in {0, 3, 7, 12}} \cup Unresolvable

\* an update of one enumerated field, or of none
CodecParamChoices ==
    {[mode |-> v] : v \in ModeInputs} \cup {[fanSpeed |-> v] : v \in FanSpeedInputs} \cup
    {[vaneHorizontal |-> v] : v \in VaneInputs} \cup
    {[vaneVertical |-> v] : v \in VaneInputs} \cup {ParamsOver({}, AtaSample)}

AtaParamChoices ==
    {ParamsOver(S, AtaSample) : S \in {{}, {"power"}, {"mode", "vaneHorizontal"}}}

AtwParamChoices ==
    {ParamsOver(S, AtwSample) : S \in {{}, {"setTemperatureZone1"},
                                       {"power", "setTemperatureZone2"}}}

Date_2024_01_01 == <<"2", "0", "2", "4", "-", "0", "1", "-", "0", "1">>
Date_2024_01_31 == <<"2", "0", "2", "4", "-", "0", "1", "-", "3", "1">>
Date_2024_1_1 == <<"2", "0", "2", "4", "-", "1", "-", "1">>

DateChoices ==
    {<<Date_2024_01_01, Date_2024_01_31>>, <<Date_2024_1_1, Date_2024_01_31>>,
     <<Date_2024_01_01, Date_2024_1_1>>}

\* a device of the account with or without its building id; an unknown id without one
DeviceChoices ==
    LET all == FlattenDevices(RemoteBuildings, 1, 0)
    IN  {<<all[i].id, b>> : i \in DOMAIN all, b \in {NoBuilding}} \cup
        {<<all[i].id, all[i].buildingId>> : i \in DOMAIN all} \cup
        {<<UnknownDevice, NoBuilding>>}

Call(op, deviceId, buildingId, params, fromDate, toDate) ==
    [op |-> op, deviceId |-> deviceId, buildingId |-> buildingId, params |-> params,
     fromDate |-> fromDate, toDate |-> toDate]

NoCall == Call("none", 0, NoBuilding, NoParams, NoDate, NoDate)

Calls ==
    {Call("login", 0, NoBuilding, NoParams, NoDate, NoDate),
     Call("getDevices", 0, NoBuilding, NoParams, NoDate, NoDate)} \cup
    {Call("getDevice", d[1], d[2], NoParams, NoDate, NoDate) : d \in DeviceChoices} \cup
    {Call("setDevice", d[1], d[2], p, NoDate, NoDate) :
        d \in DeviceChoices, p \in AtaParamChoices} \cup
    {Call("setHeatPumpDevice", d[1], d[2], p, NoDate, NoDate) :
        d \in DeviceChoices, p \in AtwParamChoices} \cup
    {Call("getEnergyReport", d[1], d[2], NoParams, dt[1], dt[2]) :
        d \in DeviceChoices, dt \in DateChoices}

(***************************************************************************)
(* The state machine.                                                      *)
(***************************************************************************)
\* the part of the state that belongs to one public operation in progress
Task(stk, c, f, l, r, p) ==
    [stack |-> stk, call |-> c, fault |-> f, log |-> l, result |-> r, posted |-> p]

NoTask == Task(<<>>, NoCall, NoFault, <<>>, [state |-> "idle", value |-> <<>>], NoPayload)

\* what the constructor stores and no method assigns
Settings == [email |-> "email", password |-> "password", maxRetries |-> maxRetries]

\* constructor: no token, nothing in progress
Init ==
    /\ contextKey = NoKey
    /\ stack = <<>>
    /\ call = NoCall
    /\ fault = NoFault
    /\ log = <<>>
    /\ result = [state |-> "idle", value |-> <<>>]
    /\ posted = NoPayload
    /\ other = NoTask
    /\ settings = Settings
    /\ remote = RemoteBuildings

Running == stack # <<>>

Idle == result.state = "idle"

\* the caller calls a public method; the remote will misbehave as plan f says
Invoke ==
    /\ Idle
    /\ \E c \in Calls : \E f \in FaultPlans(EndpointsOf(c.op)) :
          /\ call' = c
          /\ fault' = f
          /\ stack' = <<NewFrame(c.op, c.deviceId, c.buildingId, c.params,
                                 c.fromDate, c.toDate)>>
    /\ log' = <<>>
    /\ result' = Pending
    /\ posted' = NoPayload
    /\ UNCHANGED <<contextKey, remote, other, settings>>

\* a bug: no login is done, whether or not a token is held
NeedsLogin_Never(key) == FALSE

\* a bug: the login is done whether or not a token is held
NeedsLogin_Always(key) == TRUE

\* _ensureAuthenticated: `if (!this.contextKey)`
NeedsLogin(key) == key = NoKey

\* await this._ensureAuthenticated()
EnsureAuthenticated ==
    /\ Running
    /\ Top(stack).pc = "auth"
    /\ stack' = IF NeedsLogin(contextKey)
                THEN Append(SetTop(stack, [Top(stack) EXCEPT !.pc = "awaitLogin"]),
                            LoginFrame)
                ELSE SetTop(stack, [Top(stack) EXCEPT !.pc = AfterAuth(Top(stack).fn)])
    /\ UNCHANGED <<contextKey, call, fault, log, result, posted, remote, other, settings>>

\* a request fails: the body of the top frame throws the error of the request
RequestFailed(ep, key) ==
    /\ log' = Sent(ep, key)
    /\ stack' = SetTop(stack, Throw(Top(stack), RequestError(ep)))
    /\ UNCHANGED <<contextKey, call, fault, result, posted, remote, other, settings>>

\* a request was answered and the top frame's method resolves with v
RequestResolved(ep, key, v) ==
    \E value \in {v} : \E next \in {Complete(Front(stack), TRUE, value, Len(log) + 1)} :
        /\ log' = Sent(ep, key)
        /\ stack' = next.stack
        /\ result' = next.result
        /\ UNCHANGED <<call, fault, posted, remote, other, settings>>

\* login: POST /Login/ClientLogin2, then this.contextKey = ...ContextKey
LoginPost ==
    /\ Running
    /\ Top(stack).fn = "login" /\ Top(stack).pc = "post"
    /\ IF Fails("Login")
       THEN RequestFailed("Login", NoKey)
       ELSE /\ contextKey' = IssuedKey
            /\ RequestResolved("Login", NoKey, IssuedKey)

\* getDevices: GET /User/ListDevices, then the flattening of the answer
ListDevicesGet ==
    /\ Running
    /\ Top(stack).fn = "getDevices" /\ Top(stack).pc = "get"
    /\ IF Fails("ListDevices")
       THEN RequestFailed("ListDevices", contextKey)
       ELSE /\ RequestResolved("ListDevices", contextKey,
                               FlattenDevices(remote, 1, 0))
            /\ UNCHANGED contextKey

\* getDevice / getEnergyReport: `if (!buildingId) { devices = await this.getDevices() .. }`
ResolveBuilding ==
    /\ Running
    /\ Top(stack).pc = "building"
    /\ stack' = IF Top(stack).buildingId = NoBuilding
                THEN Append(SetTop(stack, [Top(stack) EXCEPT !.pc = "awaitDevices"]),
                            GetDevicesFrame)
                ELSE SetTop(stack, AfterBuilding(Top(stack), Len(log)))
    /\ UNCHANGED <<contextKey, call, fault, log, result, posted, remote, other, settings>>

\* getDevice: GET /Device/Get?id=..&buildingID=..
DeviceGet ==
    /\ Running
    /\ Top(stack).fn = "getDevice" /\ Top(stack).pc = "get"
    /\ IF Fails("DeviceGet")
       THEN RequestFailed("DeviceGet", contextKey)
       ELSE /\ RequestResolved("DeviceGet", contextKey,
                               DeviceRecord(Top(stack).deviceId, Top(stack).buildingId,
                                            RemoteDeviceData(Top(stack).deviceId)))
            /\ UNCHANGED contextKey

\* setDevice / setHeatPumpDevice: currentStatus = await this.getDevice(deviceId, buildingId)
FetchStatus ==
    /\ Running
    /\ Top(stack).pc = "status"
    /\ stack' = Append(SetTop(stack, [Top(stack) EXCEPT !.pc = "awaitStatus"]),
                       GetDeviceFrame(Top(stack).deviceId, Top(stack).buildingId))
    /\ UNCHANGED <<contextKey, call, fault, log, result, posted, remote, other, settings>>

CommandEndpoint(fn) == IF fn = "setDevice" THEN "SetAta" ELSE "SetAtw"

\* setDevice: POST /Device/SetAta; setHeatPumpDevice: POST /Device/SetAtw
CommandPost ==
    /\ Running
    /\ Top(stack).fn \in {"setDevice", "setHeatPumpDevice"} /\ Top(stack).pc = "post"
    /\ LET ep == CommandEndpoint(Top(stack).fn)
       IN  IF Fails(ep)
           THEN RequestFailed(ep, contextKey)
           ELSE /\ log' = Sent(ep, contextKey)
                /\ posted' = Top(stack).payload
                /\ remote' = Accept(remote, Top(stack).payload)
                /\ stack' = SetTop(stack, [Top(stack) EXCEPT !.pc = "settle"])
                /\ UNCHANGED <<contextKey, call, fault, result, other, settings>>

\* the 1000 ms timer, then `return this.getDevice(deviceId, buildingId)`
SettleDelay ==
    /\ Running
    /\ Top(stack).pc = "settle"
    /\ log' = Append(log, LogEntry("settle", "", 0, TRUE, "", SettleDelayMs))
    /\ stack' = Append(SetTop(stack, [Top(stack) EXCEPT !.pc = "awaitRefetch"]),
                       GetDeviceFrame(Top(stack).deviceId, Top(stack).buildingId))
    /\ UNCHANGED <<contextKey, call, fault, result, posted, remote, other, settings>>

\* getEnergyReport: POST /EnergyCost/Report
EnergyReportPost ==
    /\ Running
    /\ Top(stack).fn = "getEnergyReport" /\ Top(stack).pc = "post"
    /\ IF Fails("EnergyReport")
       THEN RequestFailed("EnergyReport", contextKey)
       ELSE /\ RequestResolved("EnergyReport", contextKey,
                               [deviceId |-> Top(stack).deviceId,
                                fromDate |-> Top(stack).fromDate,
                                toDate |-> Top(stack).toDate])
            /\ UNCHANGED contextKey

\* a bug: a transient error is retried however often it was retried before
WillRetry_Unbounded(f) == _shouldRetryError(f.error)

\* a bug: `retries <= this.maxRetries`
WillRetry_OffByOne(f) == _shouldRetryError(f.error) /\ f.retries <= settings.maxRetries

\* whether the catch block of _retryRequest goes for another attempt
WillRetry(f) == _shouldRetryError(f.error) /\ f.retries < settings.maxRetries

\* a bug: the token is dropped before every retry, whatever the error
KeyAfterCatch_AnyError(f, key) ==
    IF WillRetry(f) THEN NoKey ELSE key

\* the token after the catch block of _retryRequest
KeyAfterCatch(f, key) ==
    IF WillRetry(f) /\ f.error.response = 401 THEN NoKey ELSE key

\* _retryRequest: catch (error) { .. } up to the timer, or to `throw error`
RetryCatch ==
    /\ Running
    /\ Top(stack).pc = "catch"
    /\ contextKey' = KeyAfterCatch(Top(stack), contextKey)
    /\ IF WillRetry(Top(stack))
       THEN /\ stack' = SetTop(stack, [Top(stack) EXCEPT !.pc = "backoff"])
            /\ UNCHANGED result
       ELSE LET next == Complete(Front(stack), FALSE, Top(stack).error, Len(log))
            IN  /\ stack' = next.stack
                /\ result' = next.result
    /\ UNCHANGED <<call, fault, log, posted, remote, other, settings>>

\* _retryRequest: the backoff timer fires, then this._retryRequest(requestFn, retries + 1)
Backoff ==
    /\ Running
    /\ Top(stack).pc = "backoff"
    /\ log' = Append(log, LogEntry("backoff", "", 0, TRUE, "",
                                   BackoffDelay(Top(stack).retries)))
    /\ stack' = SetTop(stack, [Top(stack) EXCEPT !.pc = StartPc(Top(stack).fn),
                                                 !.retries = @ + 1,
                                                 !.error = NoError])
    /\ UNCHANGED <<contextKey, call, fault, result, posted, remote, other, settings>>

\* the caller has the outcome of its call; the client keeps only its token.  Before
\* the next call the owner of the account sets the devices back (through the vendor's
\* own application), so that every call is examined from the same remote state.
Return ==
    /\ result.state \in {"resolved", "rejected"}
    /\ call' = NoCall
    /\ fault' = NoFault
    /\ log' = <<>>
    /\ result' = [state |-> "idle", value |-> <<>>]
    /\ posted' = NoPayload
    /\ remote' = RemoteBuildings
    /\ UNCHANGED <<contextKey, stack, other, settings>>

Next ==
    \/ Invoke
    \/ Return
    \/ EnsureAuthenticated
    \/ LoginPost
    \/ ListDevicesGet
    \/ ResolveBuilding
    \/ DeviceGet
    \/ FetchStatus
    \/ CommandPost
    \/ SettleDelay
    \/ EnergyReportPost
    \/ RetryCatch
    \/ Backoff

Spec == Init /\ [][Next]_vars

(***************************************************************************)
(* What the log of a call shows.                                           *)
(***************************************************************************)
Settled == result.state \in {"resolved", "rejected"}

RequestCount(ep) == Cardinality(Requests(log, ep))

Backoffs == {i \in DOMAIN log : log[i].ev = "backoff"}

\* the backoff delay the call has accumulated, in ms
TotalBackoff == SumOver(Backoffs, [i \in Backoffs |-> log[i].ms])

FailedRequests == {i \in DOMAIN log : log[i].ev = "request" /\ ~log[i].ok}

\* the requests to ep and the backoff delays, in the order they happened
IsAttemptOrBackoff(e) == e.ev = "backoff" \/ (e.ev = "request" /\ e.ep = fault.ep)
AttemptsAndBackoffs == SelectSeq(log, IsAttemptOrBackoff)

(***************************************************************************)
(* C1: one _retryRequest over work that fails with HTTP 500 on every       *)
(* attempt runs the work exactly 3 times, waits 1 s before the second      *)
(* attempt and 2 s before the third, and rejects with the error of the     *)
(* last attempt, unchanged.  Checked on the calls whose failing request is *)
(* under a single _retryRequest: login() with the login request failing,   *)
(* and getDevices() with the ListDevices request failing.                  *)
(***************************************************************************)
C1_SingleWrapperPermanent500 ==
    /\ fault.status = 500 /\ fault.skip = 0 /\ fault.count = Forever
    /\ \/ call.op = "login" /\ fault.ep = "Login"
       \/ call.op = "getDevices" /\ fault.ep = "ListDevices"

C1_ThreeAttemptsThenLastError ==
    C1_SingleWrapperPermanent500 =>
        /\ RequestCount(fault.ep) <= 3
        /\ result.state # "resolved"
        /\ result.state = "rejected" =>
              /\ [i \in DOMAIN AttemptsAndBackoffs |->
                    <<AttemptsAndBackoffs[i].ev, AttemptsAndBackoffs[i].ms>>]
                 = << <<"request", 0>>, <<"backoff", 1000>>, <<"request", 0>>,
                      <<"backoff", 2000>>, <<"request", 0>> >>
              /\ log[Len(log)].ev = "request" /\ log[Len(log)].status = 500
              /\ result.value = Error(500, "Request failed", Len(log))

C1_Witness ==
    /\ C1_SingleWrapperPermanent500
    /\ call.op = "getDevices"
    /\ result.state = "rejected"
    /\ RequestCount("ListDevices") = 3

\* the failures the retry wrapper is to treat as transient, as the claims list them
ClaimTransient(status) ==
    status = NoResponse \/ status \in {401, 429} \/ status \in 500..599

\* the remote fails one endpoint permanently, with a transient failure
PermanentTransientFault ==
    /\ fault.ep \in Endpoints
    /\ fault.count = Forever
    /\ ClaimTransient(fault.status)

(***************************************************************************)
(* C2: in a single call of any public operation, an endpoint that fails    *)
(* permanently with a transient error is requested at most 3 times and the *)
(* call accumulates at most 3 seconds of backoff.                          *)
(***************************************************************************)
C2_AtMostThreeRequestsThreeSeconds ==
    PermanentTransientFault =>
        /\ RequestCount(fault.ep) <= 3
        /\ TotalBackoff <= 3000

(***************************************************************************)
(* C3: when an authenticated request of a public operation fails once with *)
(* 401 and the remote accepts everything afterwards, the client clears the *)
(* token, logs in exactly once, retries exactly once, and the operation    *)
(* resolves.  The calls meant are those the documentation allows: a device *)
(* of the account, a non-empty update of fields its device class has,      *)
(* well-formed dates.                                                      *)
(***************************************************************************)
AccountDeviceIds ==
    {FlattenDevices(RemoteBuildings, 1, 0)[i].id :
        i \in DOMAIN FlattenDevices(RemoteBuildings, 1, 0)}

KnownDevice(deviceId) == deviceId \in AccountDeviceIds

Zone2Params ==
    {"operationModeZone2", "setTemperatureZone2", "setHeatFlowTemperatureZone2",
     "setCoolFlowTemperatureZone2"}

DocumentedCall(c) ==
    CASE c.op \in {"login", "getDevices"} -> TRUE
      [] c.op = "getDevice" -> KnownDevice(c.deviceId)
      [] c.op = "setDevice" ->
            /\ KnownDevice(c.deviceId)
            /\ RemoteDeviceData(c.deviceId).DeviceType = 0
            /\ DOMAIN c.params # {}
      [] c.op = "setHeatPumpDevice" ->
            /\ KnownDevice(c.deviceId)
            /\ RemoteDeviceData(c.deviceId).DeviceType = 1
            /\ DOMAIN c.params # {}
            /\ (DOMAIN c.params \cap Zone2Params # {}
                    => RemoteDeviceData(c.deviceId).HasZone2)
      [] c.op = "getEnergyReport" ->
            /\ KnownDevice(c.deviceId)
            /\ dateRegexTest(c.fromDate) /\ dateRegexTest(c.toDate)
      [] OTHER -> FALSE

\* one authenticated request was answered 401, everything else is accepted
Single401 ==
    /\ fault.ep \in Endpoints \ {"Login"}
    /\ fault.status = 401 /\ fault.count = 1
    /\ FailedRequests # {}

LoginsAfter(i) == {j \in Requests(log, "Login") : j > i}

C3_One401OneLoginOneRetry ==
    (DocumentedCall(call) /\ Single401 /\ Settled) =>
        LET i == CHOOSE j \in FailedRequests : TRUE
        IN  /\ result.state = "resolved"
            /\ Cardinality(LoginsAfter(i)) = 1
            /\ Cardinality(Backoffs) = 1

\* the same, with setHeatPumpDevice left out (what the model finds true of the rest)
C3_ExceptHeatPump ==
    call.op # "setHeatPumpDevice" => C3_One401OneLoginOneRetry

(***************************************************************************)
(* C4: a failure is retried exactly when it carries no response or its     *)
(* status is 401, 429 or 500..599 (and attempts are left); a failure with  *)
(* any other HTTP status makes the operation reject at once with that      *)
(* error: no further request, no backoff delay, at every nesting level.    *)
(***************************************************************************)
\* every step of a catch block: another attempt exactly for a transient error
C4_CatchStep ==
    (Running /\ Top(stack).pc = "catch") =>
        LET f == Top(stack)
            retried == /\ Len(stack') = Len(stack)
                       /\ Top(stack').pc = "backoff"
        IN  /\ retried <=> (ClaimTransient(f.error.response) /\ f.retries < maxRetries)
            /\ ~retried => \/ /\ stack' = <<>>
                              /\ result' = [state |-> "rejected", value |-> f.error]
                           \/ /\ Len(stack') = Len(stack) - 1
                              /\ Top(stack').pc = "catch"
                              /\ Top(stack').error = f.error

\* after a request failed with a non-transient status nothing more is sent or waited
\* for, and the operation does not resolve: it rejects with the error of that request
C4_NonTransientIsFinal ==
    \A i \in FailedRequests :
        (log[i].status \in FailureStatuses /\ ~ClaimTransient(log[i].status)) =>
            /\ i = Len(log)
            /\ result.state # "resolved"
            /\ result.state = "rejected" =>
                  result.value = Error(log[i].status, "Request failed", i)

C4_RetryExactlyTransient == [][C4_CatchStep]_vars /\ []C4_NonTransientIsFinal

C4_Witness ==
    /\ call.op = "setDevice"
    /\ Len(stack) = 3
    /\ Top(stack).pc = "catch"
    /\ Top(stack).error.response = 404

(***************************************************************************)
(* C5: _ensureAuthenticated sends a login request only if no token is held *)
(* when it is called; with a token held it sends nothing and leaves the    *)
(* token as it is; whenever it returns normally a token is held.           *)
(***************************************************************************)
\* frame d leaves `await this._ensureAuthenticated()` normally in this step
AuthReturns(d) ==
    /\ d \in DOMAIN stack /\ d \in DOMAIN stack'
    /\ stack[d].pc \in {"auth", "awaitLogin"}
    /\ stack'[d].pc = AfterAuth(stack[d].fn)

C5_Step ==
    /\ (Running /\ Top(stack).pc = "auth" /\ contextKey # NoKey) =>
          /\ log' = log
          /\ contextKey' = contextKey
          /\ AuthReturns(Len(stack))
    /\ (Running /\ Top(stack).pc = "auth" /\ contextKey = NoKey) =>
          /\ Len(stack') = Len(stack) + 1
          /\ Top(stack').fn = "login"
          /\ stack'[Len(stack)].pc = "awaitLogin"
    /\ \A d \in DOMAIN stack : AuthReturns(d) => contextKey' = IssuedKey

C6_TokenInvalidatedOn401 ==
    /\ \A d \in DOMAIN stack :
          (stack[d].pc = "backoff" /\ stack[d].error.response = 401
           /\ log[stack[d].error.at].ep # "Login") => contextKey = NoKey
    /\ result.state = "rejected" =>
          ((result.value.response = 401 /\ log[result.value.at].ep # "Login")
              => contextKey = NoKey)

RetriedLoginFailure(e) == ~e.ok /\ (ClaimTransient(e.status) \/ e.status = OK)

(* C7 as amended: login() is itself wrapped by the retry wrapper, and      *)
(* _ensureAuthenticated adds no retry of its own.  One call of login()     *)
(* sends one login request per attempt: exactly one if that request is     *)
(* accepted or fails with a non-transient status, otherwise up to 3 with   *)
(* a backoff between them; it resolves with the token of the accepted      *)
(* request, or rejects with the failure of the last request.  A login      *)
(* that _ensureAuthenticated awaited and that rejects makes the awaiting   *)
(* body throw that same error, without another login.                      *)
C7_LoginCall ==
    call.op = "login" =>
        LET last == Len(log) IN
        /\ RequestCount("Login") <= 3
        /\ \A i \in DOMAIN log :
              IF i % 2 = 1
              THEN /\ log[i].ev = "request" /\ log[i].ep = "Login"
                   /\ i < last => RetriedLoginFailure(log[i])
              ELSE log[i].ev = "backoff"
        /\ Settled =>
              /\ log[last].ev = "request"
              /\ IF log[last].ok
                 THEN /\ result = [state |-> "resolved", value |-> IssuedKey]
                      /\ contextKey = IssuedKey
                 ELSE /\ result.state = "rejected"
                      /\ result.value.at = last
                      /\ result.value.response =
                            (IF log[last].status = OK THEN NoResponse ELSE log[last].status)
                      /\ RetriedLoginFailure(log[last]) => RequestCount("Login") = 3

C7_AwaitedLoginStep ==
    (/\ Len(stack) >= 2
     /\ Top(stack).fn = "login" /\ Top(stack).pc = "catch"
     /\ ~(Len(stack') = Len(stack) /\ Top(stack').pc = "backoff")) =>
        /\ Len(stack') = Len(stack) - 1
        /\ Top(stack').pc = "catch"
        /\ Top(stack').error = Top(stack).error
        /\ log' = log

RECURSIVE BitOr(_, _)
BitOr(a, b) ==
    IF a = 0 THEN b
    ELSE IF b = 0 THEN a
    ELSE (IF a % 2 = 1 \/ b % 2 = 1 THEN 1 ELSE 0) + 2 * BitOr(a \div 2, b \div 2)

RECURSIVE PopCount(_)
PopCount(n) == IF n = 0 THEN 0 ELSE (n % 2) + PopCount(n \div 2)

ClaimedAtaBits ==
    [power |-> 1, mode |-> 2, temperature |-> 4, fanSpeed |-> 8, vaneVertical |-> 16,
     vaneHorizontal |-> 256]

RECURSIVE BitOrOver(_)
BitOrOver(S) ==
    IF S = {} THEN 0
    ELSE LET x == CHOOSE y \in S : TRUE IN BitOr(ClaimedAtaBits[x], BitOrOver(S \ {x}))

FlagsMatch(payload, S) ==
    /\ payload.EffectiveFlags = BitOrOver(S)
    /\ PopCount(payload.EffectiveFlags) = Cardinality(S)

C8_FlagsAreOrOfSuppliedFields ==
    call.op = "setDevice" =>
        /\ DOMAIN posted # {} => FlagsMatch(posted, DOMAIN call.params)
        /\ \A d \in DOMAIN stack :
              (stack[d].fn = "setDevice" /\ stack[d].pc = "post")
                  => FlagsMatch(stack[d].payload, DOMAIN call.params)
        /\ (fault = NoFault /\ Settled /\ KnownDevice(call.deviceId)
            /\ DOMAIN call.params # {}) =>
              /\ result.state = "resolved"
              /\ DOMAIN posted # {}

C8_Witness ==
    /\ call.op = "setDevice"
    /\ DOMAIN call.params = {"power", "fanSpeed", "vaneHorizontal", "vaneVertical"}
    /\ result.state = "resolved"
    /\ posted.EffectiveFlags = 281

\* setDevice called on a device of the account with any subset of the fields; the
\* client may or may not hold a token from an earlier call; the remote accepts all
InitEncode ==
    /\ contextKey \in {NoKey, IssuedKey}
    /\ \E S \in SUBSET AtaFields : \E sample \in {AtaSample, AtaSampleB} :
       \E d \in DeviceChoices :
          /\ d[1] # UnknownDevice
          /\ call = Call("setDevice", d[1], d[2], ParamsOver(S, sample), NoDate, NoDate)
    /\ stack = <<NewFrame(call.op, call.deviceId, call.buildingId, call.params,
                          call.fromDate, call.toDate)>>
    /\ fault = NoFault
    /\ log = <<>>
    /\ result = Pending
    /\ posted = NoPayload
    /\ other = NoTask
    /\ settings = Settings
    /\ remote = RemoteBuildings

NextEncode ==
    \/ EnsureAuthenticated
    \/ LoginPost
    \/ ListDevicesGet
    \/ ResolveBuilding
    \/ DeviceGet
    \/ FetchStatus
    \/ CommandPost
    \/ SettleDelay
    \/ RetryCatch
    \/ Backoff

SpecEncode == InitEncode /\ [][NextEncode]_vars

(***************************************************************************)
(* C9: setDevice (and setHeatPumpDevice) called with an update that        *)
(* supplies no field rejects before any network request is sent: no login, *)
(* no device fetch, no command.                                            *)
(***************************************************************************)
C9_EmptyUpdateSendsNothing ==
    (call.op \in {"setDevice", "setHeatPumpDevice"} /\ DOMAIN call.params = {}) =>
        /\ \A i \in DOMAIN log : log[i].ev # "request"
        /\ result.state # "resolved"

(***************************************************************************)
(* C10: a validation failure raised by a public operation (empty update,   *)
(* malformed date, zone-2 field on a single-zone device, wrong capability  *)
(* class) is surfaced immediately: the retry wrapper does not treat it as  *)
(* transient, the operation is not re-attempted and no backoff delay       *)
(* elapses before the rejection.                                           *)
(***************************************************************************)
ValidationMessages ==
    {"No valid parameters provided to set", "Date format must be YYYY-MM-DD",
     "Device does not have Zone 2", "Device is not a heat pump (ATW device)"}

C10_ValidationNotRetried ==
    /\ \A d \in DOMAIN stack :
          stack[d].pc = "backoff" => stack[d].error.message \notin ValidationMessages
    /\ result.state = "rejected" =>
          (result.value.message \in ValidationMessages => Backoffs = {})

(***************************************************************************)
(* C11: in every attempt of setDevice the payload is seeded from the       *)
(* device state that a Device/Get request of that same attempt fetched     *)
(* (the request is the last thing the call did before it built the         *)
(* payload; no earlier fetch is reused), and every mutable payload field   *)
(* the caller did not supply equals the corresponding value of that        *)
(* fetched, decoded state.                                                 *)
(***************************************************************************)
\* <<payload field, property of the decoded state, params property>>
SeedFields ==
    { <<"Power", "power", "power">>, <<"SetTemperature", "temperature", "temperature">>,
      <<"SetFanSpeed", "fanSpeedRaw", "fanSpeed">>, <<"OperationMode", "modeRaw", "mode">>,
      <<"VaneHorizontal", "vaneHorizontalRaw", "vaneHorizontal">>,
      <<"VaneVertical", "vaneVerticalRaw", "vaneVertical">> }

\* what the remote holds for the device of frame f, decoded
FetchedNow(f) == DeviceRecord(f.deviceId, f.buildingId, RemoteDeviceData(f.deviceId))

BuildsPayload(f) == f.fn = "setDevice" /\ f.pc = "post"

C11_PayloadSeededFromFreshFetch ==
    \A d \in DOMAIN stack :
        BuildsPayload(stack[d]) =>
            /\ log # <<>>
            /\ log[Len(log)].ev = "request" /\ log[Len(log)].ep = "DeviceGet"
            /\ log[Len(log)].ok
            /\ stack[d].currentStatus = FetchedNow(stack[d])
            /\ \A c \in SeedFields :
                  c[3] \notin DOMAIN stack[d].params =>
                      stack[d].payload[c[1]] = Get(FetchedNow(stack[d]), c[2])

\* a second attempt of setDevice about to submit a payload that keeps the fetched
\* temperature, fan speed, mode and vanes
C11_Witness ==
    /\ Running
    /\ BuildsPayload(Top(stack))
    /\ Top(stack).retries >= 1
    /\ DOMAIN Top(stack).params = {"power"}
    /\ Top(stack).payload.SetTemperature = 22
    /\ Top(stack).payload.OperationMode = 1
    /\ Top(stack).payload.VaneHorizontal = 12

(***************************************************************************)
(* setDevice called on the air conditioner of the account with one         *)
(* enumerated field in every spelling a caller may use; the remote accepts *)
(* every request.                                                          *)
(***************************************************************************)
InitCodec ==
    /\ contextKey \in {NoKey, IssuedKey}
    /\ \E p \in CodecParamChoices : \E b \in {NoBuilding, RemoteBuildings[1].ID} :
          call = Call("setDevice", AccountDevices[1].DeviceID, b, p, NoDate, NoDate)
    /\ stack = <<NewFrame(call.op, call.deviceId, call.buildingId, call.params,
                          call.fromDate, call.toDate)>>
    /\ fault = NoFault
    /\ log = <<>>
    /\ result = Pending
    /\ posted = NoPayload
    /\ other = NoTask
    /\ settings = Settings
    /\ remote = RemoteBuildings

SpecCodec == InitCodec /\ [][NextEncode]_vars

\* the payload a setDevice frame holds once it has built it
HoldsPayload(f) == f.fn = "setDevice" /\ f.pc \in {"post", "settle", "awaitRefetch"}

(***************************************************************************)
(* C12: for every documented mode alias, in any letter case, setDevice     *)
(* encodes OperationMode to the raw code of the canonical name             *)
(* (heat/hot/h -> 1, dry/d -> 2, cold/cool/c -> 3, fan/air/f -> 7,         *)
(* auto/a -> 8), and a numeric code or a numeric string passes through     *)
(* with its value.                                                         *)
(***************************************************************************)
ClaimedModeCodes ==
    { <<<<"h", "e", "a", "t">>, 1>>, <<<<"h", "o", "t">>, 1>>, <<<<"h">>, 1>>,
      <<<<"d", "r", "y">>, 2>>, <<<<"d">>, 2>>,
      <<<<"c", "o", "l", "d">>, 3>>, <<<<"c", "o", "o", "l">>, 3>>, <<<<"c">>, 3>>,
      <<<<"f", "a", "n">>, 7>>, <<<<"a", "i", "r">>, 7>>, <<<<"f">>, 7>>,
      <<<<"a", "u", "t", "o">>, 8>>, <<<<"a">>, 8>> }

\* s is name, letter case apart
SameName(s, name) ==
    /\ Len(s) = Len(name)
    /\ \A i \in DOMAIN s :
          \/ s[i] = name[i]
          \/ \E j \in DOMAIN Upper : Upper[j] = s[i] /\ Lower[j] = name[i]

\* the value of a string of one or two decimal digits, -1 for any other string
DecimalValue(s) ==
    IF Len(s) = 1 /\ s[1] \in Range(Digits) THEN DigitValue(s[1])
    ELSE IF Len(s) = 2 /\ s[1] \in Range(Digits) /\ s[2] \in Range(Digits)
    THEN 10 * DigitValue(s[1]) + DigitValue(s[2])
    ELSE -1

ModeEncodedAsClaimed(mode, code) ==
    /\ mode.t = "number" => code = mode.v
    /\ (mode.t = "string" /\ DecimalValue(mode.v) >= 0) => code = DecimalValue(mode.v)
    /\ mode.t = "string" =>
          \A c \in ClaimedModeCodes : SameName(mode.v, c[1]) => code = c[2]

C12_ModeAliasesEncodeAlike ==
    (call.op = "setDevice" /\ "mode" \in DOMAIN call.params) =>
        /\ \A d \in DOMAIN stack :
              HoldsPayload(stack[d]) =>
                  ModeEncodedAsClaimed(call.params.mode, stack[d].payload.OperationMode)
        /\ DOMAIN posted # {} =>
              ModeEncodedAsClaimed(call.params.mode, posted.OperationMode)
        /\ (fault = NoFault /\ KnownDevice(call.deviceId) /\ Settled) => DOMAIN posted # {}

C12_Witness ==
    /\ call.op = "setDevice"
    /\ DOMAIN call.params = {"mode"}
    /\ call.params.mode = Str(<<"C", "O", "O", "L">>)
    /\ result.state = "resolved"
    /\ posted.OperationMode = 3

(***************************************************************************)
(* C13: setDevice given a mode, fan speed or vane value that is neither a  *)
(* known alias nor parseable as a number rejects with an input error       *)
(* before any network request, and no command whose payload holds an       *)
(* unresolved (not-a-number) field value is ever submitted.                *)
(***************************************************************************)
EnumeratedParams == {"mode", "fanSpeed", "vaneHorizontal", "vaneVertical"}

EnumeratedPayloadFields == {"OperationMode", "SetFanSpeed", "VaneHorizontal", "VaneVertical"}

GivenUnresolvable ==
    /\ call.op = "setDevice"
    /\ \E k \in DOMAIN call.params \cap EnumeratedParams : call.params[k] \in Unresolvable

C13_UnresolvableRejectedUnsent ==
    /\ GivenUnresolvable =>
          /\ \A i \in DOMAIN log : log[i].ev # "request"
          /\ result.state # "resolved"
    /\ DOMAIN posted # {} =>
          \A k \in EnumeratedPayloadFields : posted[k] # NotANumber

\* an unresolved value does reach the remote
C13_NotANumberPosted ==
    /\ GivenUnresolvable
    /\ result.state = "resolved"
    /\ posted.OperationMode = NotANumber

(***************************************************************************)
(* C14: for every enumerated field (mode, fan speed, horizontal vane,      *)
(* vertical vane) and every accepted input x, once the remote stores the   *)
(* code setDevice encoded for x, decoding the remote record yields a raw   *)
(* field (modeRaw, fanSpeedRaw, vaneHorizontalRaw, vaneVerticalRaw) equal  *)
(* to that code, the code 0 of 'auto' included.                            *)
(***************************************************************************)
\* <<params property, payload field, raw property of the decoded state>>
EnumeratedFields ==
    { <<"mode", "OperationMode", "modeRaw">>, <<"fanSpeed", "SetFanSpeed", "fanSpeedRaw">>,
      <<"vaneHorizontal", "VaneHorizontal", "vaneHorizontalRaw">>,
      <<"vaneVertical", "VaneVertical", "vaneVerticalRaw">> }

\* setDevice resolved with the state it fetched after the remote took the command
RoundTripDone ==
    /\ call.op = "setDevice"
    /\ result.state = "resolved"
    /\ DOMAIN posted # {}

RawPreserved(c) ==
    (c[1] \in DOMAIN call.params /\ posted[c[2]] # NotANumber) =>
        Get(result.value, c[3]) = posted[c[2]]

C14_DecodeInvertsEncode ==
    RoundTripDone => \A c \in EnumeratedFields : RawPreserved(c)

\* the three fields for which it does hold
C14_ExceptFanSpeed ==
    RoundTripDone => \A c \in EnumeratedFields : c[1] # "fanSpeed" => RawPreserved(c)

(***************************************************************************)
(* getDevices and getDevice called while the air conditioner of the        *)
(* account holds any of a range of codes, mapped and unmapped; the remote  *)
(* accepts every request.                                                  *)
(***************************************************************************)
ModeCodes == {0, 1, 2, 3, 4, 7, 8, 9}
FanSpeedCodes == 0..6
ReportedFanSpeeds == {0, 2, 9}
VaneCodes == {0, 1, 5, 6, 7, 12, 13}

\* records that differ from the one of the account in one enumerated field; the
\* remote may report FanSpeed next to SetFanSpeed
DeviceRecordChoices ==
    {AtaData(TRUE, 22, 3, m, 12, 0) : m \in ModeCodes} \cup
    {AtaData(TRUE, 22, f, 1, 12, 0) : f \in FanSpeedCodes} \cup
    {Spread(AtaData(TRUE, 22, f, 1, 12, 0), [FanSpeed |-> g]) :
        f \in FanSpeedCodes, g \in ReportedFanSpeeds} \cup
    {AtaData(TRUE, 22, 3, 1, v, 0) : v \in VaneCodes} \cup
    {AtaData(TRUE, 22, 3, 1, 12, v) : v \in VaneCodes}

InitDecode ==
    /\ contextKey \in {NoKey, IssuedKey}
    /\ \E data \in DeviceRecordChoices :
          remote = WithDeviceData(RemoteBuildings, AccountDevices[1].DeviceID, data)
    /\ call \in {Call("getDevices", 0, NoBuilding, NoParams, NoDate, NoDate)} \cup
                {Call("getDevice", AccountDevices[1].DeviceID, b, NoParams, NoDate, NoDate) :
                    b \in {NoBuilding, RemoteBuildings[1].ID}}
    /\ stack = <<NewFrame(call.op, call.deviceId, call.buildingId, call.params,
                          call.fromDate, call.toDate)>>
    /\ fault = NoFault
    /\ log = <<>>
    /\ result = Pending
    /\ posted = NoPayload
    /\ other = NoTask
    /\ settings = Settings

NextDecode ==
    \/ EnsureAuthenticated
    \/ LoginPost
    \/ ListDevicesGet
    \/ ResolveBuilding
    \/ DeviceGet

SpecDecode == InitDecode /\ [][NextDecode]_vars

(***************************************************************************)
(* C15: decoding a remote device record gives, for each enumerated field,  *)
(* the raw code of the record verbatim together with the label the lookup  *)
(* table maps that same code to (mode 1->heat, 2->dry, 3->cold, 7->fan,    *)
(* 8->auto; fan speed 0->auto, 1..5; vane 0->auto, 1..5, 7 or 12->swing),  *)
(* or 'unknown' when the code is unmapped; the label and the raw code      *)
(* always describe the same remote code.  For the fan speed the remote     *)
(* code may be SetFanSpeed or, failing that, the reported FanSpeed.        *)
(***************************************************************************)
ClaimedModeLabel(code) ==
    CASE code = 1 -> "heat" [] code = 2 -> "dry" [] code = 3 -> "cold" [] code = 7 -> "fan"
      [] code = 8 -> "auto" [] OTHER -> "unknown"

ClaimedSpeedLabel(code) ==
    CASE code = 0 -> "auto" [] code = 1 -> "1" [] code = 2 -> "2" [] code = 3 -> "3"
      [] code = 4 -> "4" [] code = 5 -> "5" [] OTHER -> "unknown"

ClaimedVaneLabel(code) ==
    IF code \in {7, 12} THEN "swing" ELSE ClaimedSpeedLabel(code)

\* the records the call resolved with that decode the air conditioner
DecodedRecords ==
    IF result.state # "resolved" THEN {}
    ELSE IF call.op = "getDevice" THEN {result.value}
    ELSE IF call.op = "getDevices"
    THEN {result.value[i] : i \in {j \in DOMAIN result.value :
                                      result.value[j].id = AccountDevices[1].DeviceID}}
    ELSE {}

DecodedFrom == RemoteDeviceData(AccountDevices[1].DeviceID)

FanSpeedDecodedAsClaimed(r) ==
    \E code \in {DecodedFrom.SetFanSpeed, Get(DecodedFrom, "FanSpeed")} :
        /\ code # Undefined
        /\ r.fanSpeedRaw = code
        /\ r.fanSpeed = ClaimedSpeedLabel(code)

OthersDecodedAsClaimed(r) ==
    /\ r.modeRaw = DecodedFrom.OperationMode
    /\ r.mode = ClaimedModeLabel(DecodedFrom.OperationMode)
    /\ r.vaneHorizontalRaw = DecodedFrom.VaneHorizontalDirection
    /\ r.vaneHorizontal = ClaimedVaneLabel(DecodedFrom.VaneHorizontalDirection)
    /\ r.vaneVerticalRaw = DecodedFrom.VaneVerticalDirection
    /\ r.vaneVertical = ClaimedVaneLabel(DecodedFrom.VaneVerticalDirection)

C15_RawCodeAndLabelAgree ==
    \A r \in DecodedRecords : OthersDecodedAsClaimed(r) /\ FanSpeedDecodedAsClaimed(r)

\* mode and vanes are decoded as claimed
C15_ExceptFanSpeed ==
    \A r \in DecodedRecords : OthersDecodedAsClaimed(r)

(***************************************************************************)
(* getDevices and getDevice called on accounts of many shapes: no          *)
(* building, buildings without floors, areas without devices, several      *)
(* floors, areas and devices; the remote accepts every request.            *)
(***************************************************************************)
\* a floor is the numbers of devices of its areas; a building is its floors
FloorShapes == {<<0>>, <<1>>, <<2>>, <<1, 1>>, <<0, 2>>}

BuildingShapes ==
    {<<>>} \cup {<<f>> : f \in FloorShapes} \cup {<<f, <<1>>>> : f \in FloorShapes}

AccountShapes ==
    {<<>>} \cup {<<b>> : b \in BuildingShapes} \cup
    {<<b1, b2>> : b1 \in BuildingShapes, b2 \in BuildingShapes}

\* device ids tell the place of the device; building ids fall as the buildings go on
AreaOf(n, base) ==
    [Devices |-> [i \in 1..n |->
        [DeviceID |-> base + i, DeviceName |-> "Unit",
         Device |-> AtaData(TRUE, 22, 3, 1, 12, 0)]]]

FloorOf(shape, base) ==
    [Areas |-> [a \in DOMAIN shape |-> AreaOf(shape[a], base + 10 * a)]]

BuildingOf(shape, id, base) ==
    [ID |-> id,
     Structure |-> [Floors |-> [f \in DOMAIN shape |-> FloorOf(shape[f], base + 100 * f)]]]

AccountOf(shape) ==
    [b \in DOMAIN shape |-> BuildingOf(shape[b], 50 - 10 * b, 1000 * b)]

InitTopology ==
    /\ contextKey \in {NoKey, IssuedKey}
    /\ remote \in {AccountOf(shape) : shape \in AccountShapes}
    /\ LET all == FlattenDevices(remote, 1, 0)
       IN  call \in {Call("getDevices", 0, NoBuilding, NoParams, NoDate, NoDate)} \cup
                    UNION {{Call("getDevice", all[i].id, b, NoParams, NoDate, NoDate) :
                               b \in {NoBuilding, all[i].buildingId}} : i \in DOMAIN all}
    /\ stack = <<NewFrame(call.op, call.deviceId, call.buildingId, call.params,
                          call.fromDate, call.toDate)>>
    /\ fault = NoFault
    /\ log = <<>>
    /\ result = Pending
    /\ posted = NoPayload
    /\ other = NoTask
    /\ settings = Settings

SpecTopology == InitTopology /\ [][NextDecode]_vars

\* the ID of the building of the account that holds the device
OwnerOf(deviceId) ==
    remote[CHOOSE b \in DOMAIN remote :
              \E f \in DOMAIN remote[b].Structure.Floors :
              \E a \in DOMAIN remote[b].Structure.Floors[f].Areas :
              \E d \in DOMAIN remote[b].Structure.Floors[f].Areas[a].Devices :
                  remote[b].Structure.Floors[f].Areas[a].Devices[d].DeviceID = deviceId].ID

(***************************************************************************)
(* C16: getDevices returns one entry per device of the remote              *)
(* building -> floor -> area -> device tree, in traversal order; the entry *)
(* at position i has index = i (zero-based, consecutive, no gaps or        *)
(* repeats across buildings) and buildingId equal to the ID of the         *)
(* building that contains the device.                                      *)
(***************************************************************************)
C16_FlattenedIndexedStamped ==
    (call.op = "getDevices" /\ result.state = "resolved") =>
        /\ Len(result.value) = Len(RemoteDevices)
        /\ \A i \in DOMAIN result.value :
              /\ result.value[i].index = i - 1
              /\ result.value[i].id = RemoteDevices[i].DeviceID
              /\ result.value[i].buildingId = OwnerOf(result.value[i].id)

\* two buildings, the first with two floors and three devices, the second with one
C16_Witness ==
    /\ call.op = "getDevices"
    /\ result.state = "resolved"
    /\ Len(remote) = 2
    /\ Len(result.value) = 4
    /\ result.value[3].buildingId = remote[1].ID
    /\ result.value[4].buildingId = remote[2].ID
    /\ result.value[4].index = 3

(***************************************************************************)
(* C17: for a device of the account and an unchanged remote state,         *)
(* getDevice(id) without a building id issues the same Device/Get request  *)
(* (same id and building id) and returns the same record as                *)
(* getDevice(id, b), b being the buildingId getDevices reports for the     *)
(* device: request and record are those of the device and the building     *)
(* that holds it, whether or not the caller named the building.            *)
(***************************************************************************)
C17_SameRequestAndRecord ==
    call.op = "getDevice" =>
        /\ \A d \in DOMAIN stack :
              (stack[d].fn = "getDevice" /\ stack[d].pc = "get") =>
                  /\ stack[d].deviceId = call.deviceId
                  /\ stack[d].buildingId = OwnerOf(call.deviceId)
        /\ Settled =>
              /\ result.state = "resolved"
              /\ RequestCount("DeviceGet") = 1
              /\ result.value = DeviceRecord(call.deviceId, OwnerOf(call.deviceId),
                                             RemoteDeviceData(call.deviceId))

\* getDevice without a building id resolved for a device of the second building
C17_Witness ==
    /\ call.op = "getDevice"
    /\ call.buildingId = NoBuilding
    /\ result.state = "resolved"
    /\ Len(remote) = 2
    /\ result.value.buildingId = remote[2].ID
    /\ RequestCount("ListDevices") = 1

(***************************************************************************)
(* C18: getDevice (or getEnergyReport) without a building id, for a device *)
(* id that is not in the account's device list, rejects with a not-found   *)
(* error immediately: the device list is fetched once, there is no retry   *)
(* and no backoff delay, and no Device/Get request is sent.  (Stated for   *)
(* a remote that answers every request.)                                   *)
(***************************************************************************)
LooksUpUnknownDevice ==
    /\ call.op \in {"getDevice", "getEnergyReport"}
    /\ call.buildingId = NoBuilding
    /\ ~KnownDevice(call.deviceId)
    /\ fault = NoFault

C18_NotFoundIsImmediate ==
    LooksUpUnknownDevice =>
        /\ RequestCount("ListDevices") <= 1
        /\ Backoffs = {}
        /\ RequestCount("DeviceGet") = 0
        /\ Settled =>
              /\ result.state = "rejected"
              /\ result.value.message = "Device not found"

\* what does hold: the call rejects with the not-found error and sends no Device/Get
C18_NotFoundWithoutDeviceGet ==
    LooksUpUnknownDevice =>
        /\ RequestCount("DeviceGet") = 0
        /\ Settled =>
              /\ result.state = "rejected"
              /\ result.value.message = "Device not found"

(***************************************************************************)
(* C19: a successful setDevice call issues its remote requests in the      *)
(* order: fetch of the current device state, then POST of the command to   *)
(* /Device/SetAta, then (after the settle delay) a fetch of the device     *)
(* state made strictly after the POST completed; the value returned is the *)
(* decoding of that last fetch.                                            *)
(***************************************************************************)
Answered(i, ep) == log[i].ev = "request" /\ log[i].ep = ep /\ log[i].ok

\* the accepted commands of the call
AcceptedPosts == {i \in DOMAIN log : Answered(i, "SetAta")}

LastPost == CHOOSE i \in AcceptedPosts : \A j \in AcceptedPosts : j <= i

SetDeviceResolved ==
    /\ call.op = "setDevice"
    /\ result.state = "resolved"
    /\ KnownDevice(call.deviceId)

C19_FetchPostSettleFetch ==
    SetDeviceResolved =>
        /\ AcceptedPosts # {}
        /\ LastPost > 1 /\ Answered(LastPost - 1, "DeviceGet")
        /\ LastPost < Len(log) /\ log[LastPost + 1].ev = "settle"
        /\ log[LastPost + 1].ms = SettleDelayMs
        /\ Len(log) > LastPost + 1 /\ Answered(Len(log), "DeviceGet")
        /\ \A i \in (LastPost + 1)..Len(log) : log[i].ep \notin {"SetAta", "SetAtw"}
        /\ result.value = DeviceRecord(call.deviceId, OwnerOf(call.deviceId),
                                       RemoteDeviceData(call.deviceId))
        /\ remote = Accept(RemoteBuildings, posted)

\* setDevice(1, {power: false}) resolved with the power the command set
C19_Witness ==
    /\ SetDeviceResolved
    /\ DOMAIN call.params = {"power"}
    /\ RemoteBuildings[1].Structure.Floors[1].Areas[1].Devices[1].Device.Power = TRUE
    /\ result.value.power = FALSE
    /\ result.value.id = RemoteBuildings[1].Structure.Floors[1].Areas[1].Devices[1].DeviceID

(***************************************************************************)
(* C20: setHeatPumpDevice on a device whose remote type code is heat-pump  *)
(* (1), with a non-empty update that supplies no zone-2 field, passes the  *)
(* capability check and submits one command to /Device/SetAtw whose        *)
(* EffectiveFlags is the bitwise OR of the heat-pump constants (power=1,   *)
(* forced-hot-water=2, zone1-mode=4, zone2-mode=8, tank-temperature=16,    *)
(* zone1-temperature=32, zone2-temperature=64, zone1-heat-flow=128,        *)
(* zone2-heat-flow=256, zone1-cool-flow=512, zone2-cool-flow=1024) over    *)
(* exactly the supplied fields.  (Stated for a remote that answers every   *)
(* request.)                                                               *)
(***************************************************************************)
ClaimedAtwBits ==
    [power |-> 1, forcedHotWaterMode |-> 2, operationModeZone1 |-> 4,
     operationModeZone2 |-> 8, setTankWaterTemperature |-> 16, setTemperatureZone1 |-> 32,
     setTemperatureZone2 |-> 64, setHeatFlowTemperatureZone1 |-> 128,
     setHeatFlowTemperatureZone2 |-> 256, setCoolFlowTemperatureZone1 |-> 512,
     setCoolFlowTemperatureZone2 |-> 1024]

RECURSIVE AtwBitOrOver(_)
AtwBitOrOver(S) ==
    IF S = {} THEN 0
    ELSE LET x == CHOOSE y \in S : TRUE IN BitOr(ClaimedAtwBits[x], AtwBitOrOver(S \ {x}))

IsHeatPump(deviceId) ==
    /\ KnownDevice(deviceId)
    /\ RemoteDeviceData(deviceId).DeviceType = 1

Zone1Update ==
    /\ call.op = "setHeatPumpDevice"
    /\ IsHeatPump(call.deviceId)
    /\ DOMAIN call.params # {}
    /\ DOMAIN call.params \cap Zone2Params = {}
    /\ fault = NoFault

C20_HeatPumpCommandSubmitted ==
    (Zone1Update /\ Settled) =>
        /\ result.state = "resolved"
        /\ RequestCount("SetAtw") = 1
        /\ DOMAIN posted # {}
        /\ posted.EffectiveFlags = AtwBitOrOver(DOMAIN call.params)

\* what the code does instead: no command, and the type-mismatch error
C20_RejectedAsNotAHeatPump ==
    (Zone1Update /\ Settled) =>
        /\ result.state = "rejected"
        /\ result.value.message = "Device is not a heat pump (ATW device)"
        /\ RequestCount("SetAtw") = 0

(***************************************************************************)
(* C21: setHeatPumpDevice against a device of the air-conditioner class    *)
(* never submits /Device/SetAtw and never comes to build the command; it   *)
(* rejects, and when the remote answers every request it rejects with the  *)
(* type-mismatch error.  The rejection comes after the state of the device *)
(* was fetched (login if no token is held, the device list if no building  *)
(* id was given, /Device/Get), not before any request.                     *)
(***************************************************************************)
\* the devices of the account whose remote type code is 0
AirConditionerIds ==
    {AccountDevices[i].DeviceID :
        i \in {j \in DOMAIN AccountDevices : AccountDevices[j].Device.DeviceType = 0}}

IsAirConditioner(deviceId) == deviceId \in AirConditionerIds

HeatPumpCallOnAirConditioner ==
    /\ call.op = "setHeatPumpDevice"
    /\ IsAirConditioner(call.deviceId)

TypeMismatch == "Device is not a heat pump (ATW device)"

NoRequestSent == \A i \in DOMAIN log : log[i].ev # "request"

AtwFields == DOMAIN AtwSample

HeatPumpParamChoices ==
    {ParamsOver(S, AtwSample) : S \in {T \in SUBSET AtwFields : Cardinality(T) <= 2}} \cup
    {AtwSample}

HeatPumpRemotes ==
    {RemoteBuildings,
     WithDeviceData(RemoteBuildings, AccountDevices[2].DeviceID, AtwData(TRUE, TRUE))}

InitHeatPump ==
    /\ contextKey \in {NoKey, IssuedKey}
    /\ remote \in HeatPumpRemotes
    /\ \E p \in HeatPumpParamChoices : \E i \in DOMAIN AccountDevices :
       \E b \in {NoBuilding, FlattenDevices(RemoteBuildings, 1, 0)[i].buildingId} :
          call = Call("setHeatPumpDevice", AccountDevices[i].DeviceID, b, p, NoDate, NoDate)
    /\ stack = <<NewFrame(call.op, call.deviceId, call.buildingId, call.params,
                          call.fromDate, call.toDate)>>
    /\ fault = NoFault
    /\ log = <<>>
    /\ result = Pending
    /\ posted = NoPayload
    /\ other = NoTask
    /\ settings = Settings

\* the steps a setHeatPumpDevice call takes
NextHeatPump ==
    \/ EnsureAuthenticated
    \/ LoginPost
    \/ ListDevicesGet
    \/ ResolveBuilding
    \/ DeviceGet
    \/ FetchStatus
    \/ RetryCatch
    \/ Backoff

SpecHeatPump == InitHeatPump /\ [][NextHeatPump]_vars

(***************************************************************************)
(* C22: when the update has a zone-2 field (operationModeZone2,            *)
(* setTemperatureZone2, setHeatFlowTemperatureZone2 or                     *)
(* setCoolFlowTemperatureZone2) and the device reports no second zone,     *)
(* setHeatPumpDevice rejects and submits no /Device/SetAtw command,        *)
(* whatever other fields the update has: the call never comes to the       *)
(* command, and the update blocks throw 'Device does not have Zone 2' on   *)
(* the state that was fetched.                                             *)
(***************************************************************************)
Zone2UpdateWithoutZone2 ==
    /\ call.op = "setHeatPumpDevice"
    /\ DOMAIN call.params \cap Zone2Params # {}
    /\ ~Truthy(RemoteDeviceData(call.deviceId), "HasZone2")

HasFetchedStatus(f) == f.fn = "setHeatPumpDevice" /\ f.currentStatus # NoStatus

MalformedDateCall ==
    /\ call.op = "getEnergyReport"
    /\ ~dateRegexTest(call.fromDate) \/ ~dateRegexTest(call.toDate)

C23_MalformedDateSendsNothing ==
    MalformedDateCall =>
        /\ NoRequestSent
        /\ Settled => result.state = "rejected"

\* what the code does keep to: the call rejects and the report is never requested
C23_ReportNeverRequested ==
    MalformedDateCall =>
        /\ RequestCount("EnergyReport") = 0
        /\ Settled => result.state = "rejected"

(***************************************************************************)
(* The convenience methods setZoneTemperature and getDeviceStatus, which   *)
(* are not under a _retryRequest of their own.                             *)
(***************************************************************************)
\* a bug: every zone that is not 1 is taken for zone 2
ZoneField_NoValidation(zone) ==
    IF zone.t = "number" /\ zone.v = 1 THEN "setTemperatureZone1"
    ELSE "setTemperatureZone2"

\* setZoneTemperature: the field of the update for `zone === 1`, `zone === 2`;
\* "" where the method throws
ZoneField(zone) ==
    IF zone.t = "number" /\ zone.v = 1 THEN "setTemperatureZone1"
    ELSE IF zone.t = "number" /\ zone.v = 2 THEN "setTemperatureZone2"
    ELSE ""

ZoneChoices == {Num(n) : n \in 0..3} \cup {Str(<<"1">>), Bool(TRUE)}

TemperatureChoices == {Num(20), Str(<<"2", "1">>)}

\* the remote answers, or fails the state fetch once, or always
ConvenienceFaults ==
    {NoFault} \cup
    [ep : {"DeviceGet"}, status : {404, 500}, skip : {0}, count : {1, Forever}]

\* setZoneTemperature(deviceId, zone, temperature, buildingId)
SetZoneTemperature ==
    /\ Idle
    /\ \E d \in DeviceChoices : \E z \in ZoneChoices : \E t \in TemperatureChoices :
          /\ call' = Call("setZoneTemperature", d[1], d[2],
                          [zone |-> z, temperature |-> t], NoDate, NoDate)
          /\ IF ZoneField(z) # ""
             THEN /\ stack' = <<NewFrame("setHeatPumpDevice", d[1], d[2],
                                         [k \in {ZoneField(z)} |-> t], NoDate, NoDate)>>
                  /\ result' = Pending
             ELSE /\ stack' = <<>>
                  /\ result' = [state |-> "rejected",
                                value |-> Error(NoResponse, "Zone must be 1 or 2", 0)]
    /\ fault' \in ConvenienceFaults
    /\ log' = <<>>
    /\ posted' = NoPayload
    /\ UNCHANGED <<contextKey, remote, other, settings>>

\* getDeviceStatus(deviceId, buildingId): `const device = await this.getDevice(..)`
GetDeviceStatus ==
    /\ Idle
    /\ \E d \in DeviceChoices :
          /\ call' = Call("getDeviceStatus", d[1], d[2], NoParams, NoDate, NoDate)
          /\ stack' = <<Frame("getDeviceStatus", "awaitDevice", d[1], d[2],
                               NoParams, NoDate, NoDate),
                        GetDeviceFrame(d[1], d[2])>>
    /\ fault' \in ConvenienceFaults
    /\ log' = <<>>
    /\ result' = Pending
    /\ posted' = NoPayload
    /\ UNCHANGED <<contextKey, remote, other, settings>>

NextConvenience ==
    \/ SetZoneTemperature
    \/ GetDeviceStatus
    \/ Return
    \/ EnsureAuthenticated
    \/ LoginPost
    \/ ListDevicesGet
    \/ ResolveBuilding
    \/ DeviceGet
    \/ FetchStatus
    \/ RetryCatch
    \/ Backoff

SpecConvenience == Init /\ [][NextConvenience]_vars

(***************************************************************************)
(* C24: setZoneTemperature with a zone that is not 1 or 2 rejects with     *)
(* 'Zone must be 1 or 2', sends no request and leaves the token as it is;  *)
(* with zone 1 or 2 it is the call of setHeatPumpDevice with the one field *)
(* setTemperatureZone1 or setTemperatureZone2, set to the temperature.     *)
(***************************************************************************)
ClaimedZoneUpdate(zone, temperature) ==
    IF zone = Num(1) THEN [setTemperatureZone1 |-> temperature]
    ELSE [setTemperatureZone2 |-> temperature]

C24_Step ==
    /\ Idle
    /\ call'.op = "setZoneTemperature"
    /\ IF call'.params.zone \in {Num(1), Num(2)}
       THEN /\ stack' = <<NewFrame("setHeatPumpDevice", call'.deviceId, call'.buildingId,
                                   ClaimedZoneUpdate(call'.params.zone,
                                                     call'.params.temperature),
                                   NoDate, NoDate)>>
            /\ result' = Pending
       ELSE /\ stack' = <<>>
            /\ result'.state = "rejected"
            /\ result'.value.message = "Zone must be 1 or 2"
            /\ log' = <<>>
            /\ contextKey' = contextKey

C24_ZoneCheckedThenDelegated ==
    [][(Idle /\ call'.op = "setZoneTemperature") => C24_Step]_vars

\* zone 3 with a token held: rejected, nothing sent, the token still held
C24_Witness ==
    /\ call.op = "setZoneTemperature"
    /\ call.params.zone = Num(3)
    /\ result.state = "rejected"
    /\ result.value.message = "Zone must be 1 or 2"
    /\ NoRequestSent
    /\ contextKey = IssuedKey

(***************************************************************************)
(* C25: for every device of the account getDeviceStatus reports the type   *)
(* 'Air Conditioner' when the remote type code of the device is 0 and      *)
(* 'Heat Pump' when it is 1, and reports the name of the device.           *)
(***************************************************************************)
RemoteDevice(deviceId) ==
    RemoteDevices[CHOOSE i \in DOMAIN RemoteDevices : RemoteDevices[i].DeviceID = deviceId]

ClaimedTypeLabel(code) ==
    IF code = 0 THEN "Air Conditioner" ELSE IF code = 1 THEN "Heat Pump" ELSE "Unknown"

StatusReported ==
    /\ call.op = "getDeviceStatus"
    /\ KnownDevice(call.deviceId)
    /\ result.state = "resolved"

C25_StatusHasTypeAndName ==
    StatusReported =>
        /\ result.value.type = ClaimedTypeLabel(RemoteDevice(call.deviceId).Device.DeviceType)
        /\ "name" \in DOMAIN result.value
        /\ result.value.name = RemoteDevice(call.deviceId).DeviceName

\* what the code reports instead: 'Unknown' and no name, for every device
C25_StatusOfUnknownType ==
    StatusReported =>
        /\ result.value.type = "Unknown"
        /\ "name" \notin DOMAIN result.value
        /\ result.value.id = call.deviceId

(***************************************************************************)
(* C27: one call of setDevice submits the command at most once after the   *)
(* remote accepted it: no POST to /Device/SetAta follows an accepted POST  *)
(* to /Device/SetAta in the same call, even when the re-fetch of the       *)
(* device fails with a transient error.                                    *)
(***************************************************************************)
CommandRequests == Requests(log, "SetAta")

C27_NoCommandAfterAcceptedCommand ==
    call.op = "setDevice" =>
        \A i \in CommandRequests : \A j \in CommandRequests :
            ~(log[i].ok /\ i < j)

\* what the code keeps to: one command for every run of the body that got to it
C27_OneCommandPerAttempt ==
    call.op = "setDevice" =>
        /\ Cardinality(CommandRequests) <= maxRetries + 1
        /\ \A i \in CommandRequests : \A j \in CommandRequests :
              (log[i].ok /\ i < j) =>
                  \E k \in (i + 1)..(j - 1) :
                      /\ log[k].ev = "request" /\ log[k].ep = "DeviceGet" /\ ~log[k].ok

(***************************************************************************)
(* C30: the token changes in two ways only: the answer to a successful     *)
(* login sets it, and the catch block of _retryRequest clears it when the  *)
(* error is a 401 that is retried.  A request that fails (a login that     *)
(* fails too) and a catch of any other error (no response, 429, 5xx, a     *)
(* non-transient status) leave it as it was.  No step changes the          *)
(* credentials or the retry bound.                                         *)
(***************************************************************************)
\* the step is a request that was sent and failed
RequestFailedNow ==
    /\ Len(log') = Len(log) + 1
    /\ log'[Len(log')].ev = "request"
    /\ ~log'[Len(log')].ok

\* the step is the answer to a login that succeeded
LoginSucceededNow ==
    /\ Running
    /\ Top(stack).fn = "login" /\ Top(stack).pc = "post"
    /\ Len(log') = Len(log) + 1
    /\ log'[Len(log')].ev = "request" /\ log'[Len(log')].ep = "Login"
    /\ log'[Len(log')].ok

\* the step is a catch block of _retryRequest
CatchNow == Running /\ Top(stack).pc = "catch"

\* the step is a catch block that goes for a retry after a 401
RetryOf401Now ==
    /\ CatchNow
    /\ Top(stack).error.response = 401
    /\ Top(stack).retries < maxRetries
    /\ Len(stack') = Len(stack) /\ Top(stack').pc = "backoff"

C30_Step ==
    /\ contextKey' # contextKey =>
          \/ LoginSucceededNow /\ contextKey' = IssuedKey
          \/ RetryOf401Now /\ contextKey' = NoKey
    /\ RequestFailedNow => contextKey' = contextKey
    /\ (CatchNow /\ Top(stack).error.response # 401) => contextKey' = contextKey
    /\ settings' = settings
    /\ settings = [email |-> "email", password |-> "password", maxRetries |-> maxRetries]

C30_TokenSetByLoginClearedBy401 == [][C30_Step]_vars

\* a call that logged in, then met a 401 and has dropped the token before its retry
C30_Witness ==
    /\ Running
    /\ Top(stack).pc = "backoff"
    /\ Top(stack).error.response = 401
    /\ contextKey = NoKey
    /\ \E i \in Requests(log, "Login") : log[i].ok

(***************************************************************************)
(* One call of every operation on a client with or without token, under    *)
(* every fault plan; the event loop runs every continuation whose request  *)
(* was answered or whose timer fired.                                      *)
(***************************************************************************)
LiveCalls ==
    {Call("login", 0, NoBuilding, NoParams, NoDate, NoDate),
     Call("getDevices", 0, NoBuilding, NoParams, NoDate, NoDate),
     Call("getDevice", AccountDevices[1].DeviceID, NoBuilding, NoParams, NoDate, NoDate),
     Call("setDevice", AccountDevices[1].DeviceID, NoBuilding,
          ParamsOver({"power"}, AtaSample), NoDate, NoDate),
     Call("setHeatPumpDevice", AccountDevices[2].DeviceID, NoBuilding,
          ParamsOver({"setTemperatureZone1"}, AtwSample), NoDate, NoDate),
     Call("getEnergyReport", AccountDevices[1].DeviceID, NoBuilding, NoParams,
          Date_2024_01_01, Date_2024_01_31),
     Call("getEnergyReport", AccountDevices[1].DeviceID, NoBuilding, NoParams,
          Date_2024_1_1, Date_2024_01_31)}

InitLive ==
    /\ contextKey \in {NoKey, IssuedKey}
    /\ call \in LiveCalls
    /\ fault \in FaultPlans(EndpointsOf(call.op))
    /\ stack = <<NewFrame(call.op, call.deviceId, call.buildingId, call.params,
                          call.fromDate, call.toDate)>>
    /\ log = <<>>
    /\ result = Pending
    /\ posted = NoPayload
    /\ other = NoTask
    /\ settings = Settings
    /\ remote = RemoteBuildings

\* the steps of a call in progress
NextLive ==
    \/ EnsureAuthenticated
    \/ LoginPost
    \/ ListDevicesGet
    \/ ResolveBuilding
    \/ DeviceGet
    \/ FetchStatus
    \/ CommandPost
    \/ SettleDelay
    \/ EnergyReportPost
    \/ RetryCatch
    \/ Backoff

SpecLive == InitLive /\ [][NextLive]_vars /\ WF_vars(NextLive)

(***************************************************************************)
(* C29: when every request is answered or fails, every call of a public    *)
(* operation settles in the end, and the number of requests one call sends *)
(* is bounded: every _retryRequest runs its work at most maxRetries + 1    *)
(* times, so the bound follows from the nesting of the operations.         *)
(***************************************************************************)
Attempts == maxRetries + 1

\* the requests one call of an operation can send at most
RequestBound(op) ==
    LET login == Attempts
        getDevices == Attempts * (login + 1)
        getDevice == Attempts * (login + getDevices + 1)
    IN  CASE op = "login" -> login
          [] op = "getDevices" -> getDevices
          [] op = "getDevice" -> getDevice
          [] op \in {"setDevice", "setHeatPumpDevice"} ->
                Attempts * (login + getDevice + 1 + getDevice)
          [] op = "getEnergyReport" -> Attempts * (login + getDevices + 1)

AllRequests == {i \in DOMAIN log : log[i].ev = "request"}

RequestsBounded == Cardinality(AllRequests) <= RequestBound(call.op)

C29_EveryCallSettlesAfterBoundedRequests == []RequestsBounded /\ <>Settled

\* a call that settled after the remote failed it on every attempt
C29_Witness ==
    /\ Settled
    /\ fault.count = Forever
    /\ Cardinality(Backoffs) >= maxRetries
    /\ Cardinality(AllRequests) > Attempts

(***************************************************************************)
(* Two public operations in progress on one client.  JavaScript runs one   *)
(* of them at a time; the other gets to run when the one running waits for *)
(* the answer to a request or for a timer.  So a request is modelled in    *)
(* two steps: it is sent, with the token the client holds then, and later  *)
(* its answer is handled.  The remote answers a request that carries no    *)
(* token with HTTP 401.                                                    *)
(***************************************************************************)
EndpointOfFrame(f) ==
    CASE f.fn = "login" -> "Login"
      [] f.fn = "getDevices" -> "ListDevices"
      [] f.fn = "getDevice" -> "DeviceGet"
      [] f.fn \in {"setDevice", "setHeatPumpDevice"} -> CommandEndpoint(f.fn)
      [] f.fn = "getEnergyReport" -> "EnergyReport"

\* the header X-MitsContextKey of a request to ep: this.contextKey when it is sent
KeySent(ep) == IF ep = "Login" THEN NoKey ELSE contextKey

Unauthenticated(ep) == ep # "Login" /\ KeySent(ep) = NoKey

\* axios.get / axios.post is called: the request leaves and the operation waits
SendRequest ==
    /\ Running
    /\ Top(stack).pc \in {"post", "get"}
    /\ LET ep == EndpointOfFrame(Top(stack))
           failed == Unauthenticated(ep) \/ Fails(ep)
       IN  log' = Append(log, LogEntry("request", ep,
                                      IF Unauthenticated(ep) THEN 401
                                      ELSE IF Fails(ep) THEN fault.status ELSE OK,
                                      ~failed, KeySent(ep), 0))
    /\ stack' = SetTop(stack, [Top(stack) EXCEPT !.pc = "sent"])
    /\ UNCHANGED <<contextKey, call, fault, result, posted, remote, other, settings>>

\* the error axios rejects with for the request logged as e, the last of the log
ResponseError(e) == Error(e.status, "Request failed", Len(log))

\* what the method of frame f resolves with when its request was answered
ResponseValue(f) ==
    CASE f.fn = "login" -> IssuedKey
      [] f.fn = "getDevices" -> FlattenDevices(remote, 1, 0)
      [] f.fn = "getDevice" ->
            DeviceRecord(f.deviceId, f.buildingId, RemoteDeviceData(f.deviceId))
      [] f.fn = "getEnergyReport" ->
            [deviceId |-> f.deviceId, fromDate |-> f.fromDate, toDate |-> f.toDate]

\* the answer arrives: the await of axios rejects, or the method goes on after it
ReceiveResponse ==
    /\ Running
    /\ Top(stack).pc = "sent"
    /\ IF ~log[Len(log)].ok
       THEN /\ stack' = SetTop(stack, Throw(Top(stack), ResponseError(log[Len(log)])))
            /\ UNCHANGED <<contextKey, result, posted, remote>>
       ELSE IF Top(stack).fn \in {"setDevice", "setHeatPumpDevice"}
       THEN /\ posted' = Top(stack).payload
            /\ remote' = Accept(remote, Top(stack).payload)
            /\ stack' = SetTop(stack, [Top(stack) EXCEPT !.pc = "settle"])
            /\ UNCHANGED <<contextKey, result>>
       ELSE \E value \in {ResponseValue(Top(stack))} :
            \E next \in {Complete(Front(stack), TRUE, value, Len(log))} :
               /\ contextKey' = IF Top(stack).fn = "login" THEN IssuedKey ELSE contextKey
               /\ stack' = next.stack
               /\ result' = next.result
               /\ UNCHANGED <<posted, remote>>
    /\ UNCHANGED <<call, fault, log, other, settings>>

\* the operation in progress waits for an answer or a timer, or has settled
Waiting == IF stack = <<>> THEN TRUE ELSE Top(stack).pc \in {"sent", "backoff", "settle"}

\* the event loop turns to the other operation
Switch ==
    /\ Waiting
    /\ other.stack # <<>>
    /\ other' = Task(stack, call, fault, log, result, posted)
    /\ stack' = other.stack
    /\ call' = other.call
    /\ fault' = other.fault
    /\ log' = other.log
    /\ result' = other.result
    /\ posted' = other.posted
    /\ UNCHANGED <<contextKey, remote, settings>>

\* the operations that are run side by side
ConcurrentCalls ==
    {Call("getDevices", 0, NoBuilding, NoParams, NoDate, NoDate),
     Call("getDevice", AccountDevices[1].DeviceID, NoBuilding, NoParams, NoDate, NoDate),
     Call("setDevice", AccountDevices[1].DeviceID, RemoteBuildings[1].ID,
          ParamsOver({"power"}, AtaSample), NoDate, NoDate),
     Call("getEnergyReport", AccountDevices[1].DeviceID, RemoteBuildings[1].ID, NoParams,
          Date_2024_01_01, Date_2024_01_31)}

\* the remote answers everything, or answers one request of the operation with 401
ConcurrentFaults(op) ==
    {NoFault} \cup
    [ep : EndpointsOf(op) \ {"Login"}, status : {401}, skip : {0}, count : {1}]

StartedTask(c, f) ==
    Task(<<NewFrame(c.op, c.deviceId, c.buildingId, c.params, c.fromDate, c.toDate)>>,
         c, f, <<>>, Pending, NoPayload)

\* the caller has called two methods, one after the other, and awaits both
InitConcurrent ==
    /\ contextKey \in {NoKey, IssuedKey}
    /\ call \in ConcurrentCalls
    /\ fault \in ConcurrentFaults(call.op)
    /\ stack = StartedTask(call, fault).stack
    /\ log = <<>>
    /\ result = Pending
    /\ posted = NoPayload
    /\ other \in {StartedTask(c, f) : c \in ConcurrentCalls,
                                      f \in UNION {ConcurrentFaults(d.op) : d \in ConcurrentCalls}}
    /\ other.fault \in ConcurrentFaults(other.call.op)
    /\ settings = Settings
    /\ remote = RemoteBuildings

NextConcurrent ==
    \/ Switch
    \/ SendRequest
    \/ ReceiveResponse
    \/ EnsureAuthenticated
    \/ ResolveBuilding
    \/ FetchStatus
    \/ SettleDelay
    \/ RetryCatch
    \/ Backoff

SpecConcurrent == InitConcurrent /\ [][NextConcurrent]_vars

BothSettled == Settled /\ other.result.state \in {"resolved", "rejected"}

(***************************************************************************)
(* C26: two operations run side by side on a client, the remote accepting  *)
(* every login and every request that carries a token: each of them may do *)
(* a login of its own, and that is harmless: no request of either is       *)
(* refused, both resolve, and the client holds a token when both are done. *)
(***************************************************************************)
NoFaults == fault = NoFault /\ other.fault = NoFault

AllAnswered(l) == \A i \in DOMAIN l : l[i].ev = "request" => l[i].ok

C26_ConcurrentLoginsBenign ==
    NoFaults =>
        /\ AllAnswered(log) /\ AllAnswered(other.log)
        /\ BothSettled =>
              /\ result.state = "resolved"
              /\ other.result.state = "resolved"
              /\ contextKey = IssuedKey

\* both operations have logged in, and both have resolved
C26_Witness ==
    /\ NoFaults
    /\ BothSettled
    /\ result.state = "resolved" /\ other.result.state = "resolved"
    /\ Requests(log, "Login") # {} /\ Requests(other.log, "Login") # {}
    /\ contextKey = IssuedKey

(***************************************************************************)
(* C28: every request other than the login (device list, device state,     *)
(* command, energy report) carries a token, not null, when it is sent: for *)
(* one operation at a time, and for two operations side by side of which   *)
(* one may be answered 401 and clear the token.                            *)
(***************************************************************************)
CarryToken(l) ==
    \A i \in DOMAIN l : (l[i].ev = "request" /\ l[i].ep # "Login") => l[i].key # NoKey

C28_EveryRequestCarriesToken == CarryToken(log) /\ CarryToken(other.log)

\* what holds of the code: the requests of an operation that runs alone carry a token
C28_RequestsOfSingleCallerCarryToken ==
    other = NoTask => CarryToken(log)

====
